---------------------------- MODULE Spec2Model ----------------------------
(***************************************************************************)
(* Model of the cadis runtime: the FFSF v3 spatial index, the runtime      *)
(* policy, the evidence pipeline of cadis-core and the semantic overlays.  *)
(*                                                                         *)
(* Python dictionaries are insertion ordered; a dict is modelled as a      *)
(* sequence of entries [k |-> key, v |-> value] with pairwise distinct     *)
(* keys.  Tuples of levels (shapes) are sequences of integers.             *)
(*                                                                         *)
(* Python objects are references.  An evidence node carries a field "ref": *)
(* "" for an object private to the call, or the key of the entry of        *)
(* hierarchy_parent_map that is the very same object.  copy.deepcopy       *)
(* yields a private object; a write to a node whose ref is not "" is a     *)
(* write to the shared map (see WriteBack).                                *)
(***************************************************************************)
EXTENDS Integers, Sequences, FiniteSets, TLC

VARIABLES
    \* the runtime instance (CadisLookupPipeline.__init__)
    phase,                  \* "dataset" | "ready" | "rejected"
    raw_policy,             \* content of runtime_policy.json
    policy,                 \* RuntimePolicy, or NoPolicy
    index,                  \* FFSFSpatialIndexV3: sequence of features
    hierarchy_parent_map,   \* dict: child name -> parent node
    repair_anchor_map,      \* dict: child name -> <<anchor name, anchor id>>
    semantic_overlays,      \* list of SemanticOverlay
    \* the last call and what it returned
    last_op,                \* "none" | "query" | "lookup" | "core" | "overlay"
    pt,                     \* query point <<x, y>>
    levels,                 \* levels argument of query_point
    polygon_hits,           \* dict returned by query_point
    bundle,                 \* dict returned by run_v2_shadow_pipeline
    base,                   \* bundle handed to apply_semantic_overlays
    applied,                \* overlays handed to apply_semantic_overlays
    out,                    \* what apply_semantic_overlays returned
    \* concurrent lookups on one runtime instance
    th,                     \* per thread: position in lookup and its locals
    loaded,                 \* the runtime instance as constructed
    \* query_point_nearest
    max_km,                 \* max_distance_km argument of the last call
    \* dataset bootstrap
    fs,                     \* the cache directory tree: path -> file content
    server,                 \* what the dataset repository serves
    boot                    \* per caller: position in its bootstrap call and its locals

runtimeVars == <<phase, raw_policy, policy, index, hierarchy_parent_map,
                 repair_anchor_map, semantic_overlays>>
callVars == <<last_op, pt, levels, polygon_hits, bundle, base, applied, out>>
concVars == <<th, loaded>>
nearVars == <<max_km>>
bootVars == <<fs, server, boot>>
vars == <<runtimeVars, callVars, concVars, nearVars, bootVars>>

----------------------------------------------------------------------------
(* Bounds of the model *)

\* query points are <<x, y>> with x, y in 0..GridMax
GridMax == 4
\* number of features of an index in the geometry specification
MaxFeatures == 2

(* Program constants *)

\* 16-bit quantization range
QMax == 65535

----------------------------------------------------------------------------
(* Generic helpers: ordered dicts, sorting *)

Min2(a, b) == IF a < b THEN a ELSE b
Max2(a, b) == IF a > b THEN a ELSE b

RECURSIVE SetToSortedSeq(_)
\* sorted(set)
SetToSortedSeq(S) ==
    IF S = {} THEN <<>>
    ELSE LET m == CHOOSE x \in S : \A y \in S : x <= y
         IN  <<m>> \o SetToSortedSeq(S \ {m})

SeqToSet(s) == {s[i] : i \in DOMAIN s}

DictKeys(d) == {d[i].k : i \in DOMAIN d}
DictHas(d, key) == key \in DictKeys(d)
DictGet(d, key) == d[CHOOSE i \in DOMAIN d : d[i].k = key].v
\* d[key] = value
DictSet(d, key, value) ==
    IF DictHas(d, key)
    THEN [i \in DOMAIN d |-> IF d[i].k = key THEN [k |-> key, v |-> value] ELSE d[i]]
    ELSE Append(d, [k |-> key, v |-> value])
\* list(d.values())
DictValues(d) == [i \in DOMAIN d |-> d[i].v]
\* sorted(d.keys())
SortedKeys(d) == SetToSortedSeq(DictKeys(d))

----------------------------------------------------------------------------
(* FFSF v3 index: quantization and the contains test *)

\* _quantize: q = round_half_up((value - min) / span * 65535), clamped to
\* 0..65535.  With d = value - min and span > 0 (signs flipped together when
\* span < 0): scaled <= 0 iff d <= 0, scaled >= 65535 iff d >= span, and
\* floor(scaled + 1/2) = (2 * d * 65535 + span) div (2 * span), exactly.
Quantize(value, min_value, span) ==
    IF span = 0 THEN 0
    ELSE LET d == IF span > 0 THEN value - min_value ELSE min_value - value
             sp == IF span > 0 THEN span ELSE 0 - span
         IN  IF d <= 0 THEN 0
             ELSE IF d >= sp THEN QMax
             ELSE (2 * d * QMax + sp) \div (2 * sp)

\* _point_on_segment: bbox reject, then the exact collinearity predicate
PointOnSegment(px, py, x1, y1, x2, y2) ==
    IF px < Min2(x1, x2) \/ px > Max2(x1, x2) THEN FALSE
    ELSE IF py < Min2(y1, y2) \/ py > Max2(y1, y2) THEN FALSE
    ELSE (x2 - x1) * (py - y1) = (y2 - y1) * (px - x1)

\* the crossing test of one edge: qx < (xj - xi) * (qy - yi) / den + xi,
\* with the division by den (non-zero when the edge straddles qy) cleared
EdgeCrosses(qx, qy, xi, yi, xj, yj) ==
    LET den == yj - yi
        num == (xj - xi) * (qy - yi)
    IN  /\ (yi > qy) # (yj > qy)
        /\ den # 0
        /\ IF den > 0 THEN (qx - xi) * den < num ELSE (qx - xi) * den > num

RECURSIVE RingLoop(_, _, _, _, _)
\* the loop of _point_in_ring from position i on, with the parity so far
RingLoop(qx, qy, ring, i, inside) ==
    IF i > Len(ring) THEN inside
    ELSE LET j == IF i = 1 THEN Len(ring) ELSE i - 1
             xi == ring[i][1]
             yi == ring[i][2]
             xj == ring[j][1]
             yj == ring[j][2]
         IN  IF PointOnSegment(qx, qy, xj, yj, xi, yi) THEN TRUE
             ELSE RingLoop(qx, qy, ring, i + 1,
                           IF EdgeCrosses(qx, qy, xi, yi, xj, yj)
                           THEN ~inside ELSE inside)

\* _point_in_ring: even-odd ray casting; a point on an edge is in the ring
PointInRing(qx, qy, ring) ==
    IF Len(ring) < 3 THEN FALSE ELSE RingLoop(qx, qy, ring, 1, FALSE)

\* _part_contains_point; a part is [bbox |-> <<minx, miny, maxx, maxy>>,
\* rings |-> sequence of rings], rings[1] the outer ring, the rest holes
PartContainsPoint(part, p) ==
    LET minx == part.bbox[1]
        miny == part.bbox[2]
        maxx == part.bbox[3]
        maxy == part.bbox[4]
        qx == Quantize(p[1], minx, maxx - minx)
        qy == Quantize(p[2], miny, maxy - miny)
    IN  IF ~(minx <= p[1] /\ p[1] <= maxx /\ miny <= p[2] /\ p[2] <= maxy) THEN FALSE
        ELSE IF Len(part.rings) = 0 THEN FALSE
        ELSE IF Len(part.rings[1]) = 0 THEN FALSE
        ELSE IF ~PointInRing(qx, qy, part.rings[1]) THEN FALSE
        ELSE IF \E h \in 2..Len(part.rings) :
                   Len(part.rings[h]) > 0 /\ PointInRing(qx, qy, part.rings[h])
             THEN FALSE
        ELSE TRUE

\* _feature_contains_point: some part of the feature contains the point
FeatureContainsPoint(feature, p) ==
    \E i \in DOMAIN feature.parts : PartContainsPoint(feature.parts[i], p)

\* the hit query_point records for a feature
PolygonHit(feature) ==
    [level |-> feature.level, name |-> feature.name,
     osm_id |-> feature.feature_id, source |-> "polygon", ref |-> ""]

RECURSIVE QueryLoopLastWins(_, _, _, _, _)
QueryLoopLastWins(idx, p, level_set, i, hits) ==
    IF i > Len(idx) THEN hits
    ELSE LET feature == idx[i]
         IN  IF feature.level \notin level_set
             THEN QueryLoopLastWins(idx, p, level_set, i + 1, hits)
             ELSE LET hits2 == IF FeatureContainsPoint(feature, p)
                               THEN DictSet(hits, feature.level, PolygonHit(feature))
                               ELSE hits
                  IN  IF Len(hits2) = Cardinality(level_set) THEN hits2
                      ELSE QueryLoopLastWins(idx, p, level_set, i + 1, hits2)

RECURSIVE QueryLoop(_, _, _, _, _)
\* the loop of query_point from feature i on, with the hits so far
QueryLoop(idx, p, level_set, i, hits) ==
    IF i > Len(idx) THEN hits
    ELSE LET feature == idx[i]
         IN  IF feature.level \notin level_set
             THEN QueryLoop(idx, p, level_set, i + 1, hits)
             ELSE IF DictHas(hits, feature.level)
             THEN QueryLoop(idx, p, level_set, i + 1, hits)
             ELSE LET hits2 == IF FeatureContainsPoint(feature, p)
                               THEN DictSet(hits, feature.level, PolygonHit(feature))
                               ELSE hits
                  IN  IF Len(hits2) = Cardinality(level_set) THEN hits2
                      ELSE QueryLoop(idx, p, level_set, i + 1, hits2)

\* FFSFSpatialIndexV3.query_point(pt, levels)
QueryPoint(idx, p, lvls) == QueryLoop(idx, p, SeqToSet(lvls), 1, <<>>)

----------------------------------------------------------------------------
(* Runtime policy: load_runtime_policy                                     *)

RECURSIVE DedupeKeepFirst(_, _)
\* "if item not in out: out.append(item)" over the list, from the left
DedupeKeepFirst(s, acc) ==
    IF s = <<>> THEN acc
    ELSE DedupeKeepFirst(Tail(s),
                         IF Head(s) \in SeqToSet(acc) THEN acc ELSE Append(acc, Head(s)))

\* _as_int_list: [ok, out]; the entries of the model's lists are integers
AsIntList(value, allow_empty) ==
    IF value = <<>> /\ ~allow_empty THEN [ok |-> FALSE, out |-> <<>>]
    ELSE [ok |-> TRUE, out |-> DedupeKeepFirst(value, <<>>)]

\* tuple(sorted(set(entry)))
ShapeOf(entry) == SetToSortedSeq(SeqToSet(entry))

StatusValues == {"ok", "partial", "failed"}

RECURSIVE BuildShapeStatusMap(_, _)
\* the loop "shape_status_map[shape] = status" over shape_status, in order
BuildShapeStatusMap(entries, acc) ==
    IF entries = <<>> THEN acc
    ELSE BuildShapeStatusMap(Tail(entries),
                             DictSet(acc, ShapeOf(Head(entries).levels), Head(entries).status))

\* The strings of optional_layers are sequences of characters, a file name
\* is the sequence of the parts of its path ("/" first when it is absolute).
Whitespace == {" "}

RECURSIVE lstrip(_)
lstrip(s) == IF s # <<>> /\ Head(s) \in Whitespace THEN lstrip(Tail(s)) ELSE s

RECURSIVE rstrip(_)
rstrip(s) ==
    IF s # <<>> /\ s[Len(s)] \in Whitespace THEN rstrip(SubSeq(s, 1, Len(s) - 1)) ELSE s

\* str.strip()
strip(s) == rstrip(lstrip(s))

\* rel.is_absolute() or ".." in rel.parts
OutsideDatasetRoot(rel) == (rel # <<>> /\ Head(rel) = "/") \/ ".." \in SeqToSet(rel)

\* OptionalLayerDeclaration(name=name.strip(), file=rel.as_posix(), ...)
OptionalLayerDeclaration(entry) ==
    [name |-> strip(entry.name), file |-> entry.file, type |-> entry.type,
     stage |-> entry.stage, deterministic |-> TRUE]

RECURSIVE OptionalLayersLoop(_, _, _)
\* the loop of load_runtime_policy over optional_layers_raw: [ok, reason, layers]
OptionalLayersLoop(entries, seen_names, optional_layers) ==
    IF entries = <<>> THEN [ok |-> TRUE, reason |-> "", layers |-> optional_layers]
    ELSE LET entry == Head(entries)
             Fail(why) == [ok |-> FALSE, reason |-> why, layers |-> <<>>]
         IN  IF strip(entry.name) = <<>> THEN Fail("optional_layers[idx].name is required.")
             ELSE IF entry.name \in seen_names
             THEN Fail("optional_layers has duplicate name.")
             ELSE IF entry.file = <<>> THEN Fail("optional_layers[idx].file is required.")
             ELSE IF OutsideDatasetRoot(entry.file)
             THEN Fail("optional_layers[idx].file must be a relative path within dataset root.")
             ELSE IF entry.type # "semantic_overlay"
             THEN Fail("optional_layers[idx].type must be 'semantic_overlay'.")
             ELSE IF entry.stage # "post_status"
             THEN Fail("optional_layers[idx].stage must be 'post_status'.")
             ELSE IF entry.deterministic # TRUE
             THEN Fail("optional_layers[idx].deterministic must be true.")
             ELSE OptionalLayersLoop(Tail(entries), seen_names \cup {entry.name},
                                     Append(optional_layers, OptionalLayerDeclaration(entry)))

\* raw.get("optional_layers", [])
OptionalLayersRaw(raw) ==
    IF "optional_layers" \in DOMAIN raw THEN raw.optional_layers ELSE <<>>

\* the fields of a RuntimePolicy, for a policy that was not loaded
NoPolicyFields ==
    [valid |-> FALSE, reason |-> "", allowed_levels |-> <<>>, allowed_shapes |-> {},
     shape_status_map |-> <<>>, hierarchy_parent_level |-> 0,
     hierarchy_child_levels |-> {}, repair_parent_level |-> 0,
     repair_child_levels |-> {}, hierarchy_required |-> FALSE,
     repair_required |-> FALSE, optional_layers |-> <<>>]

\* raise RuntimePolicyInvalidError(reason=why)
Rejected(why) == [NoPolicyFields EXCEPT !.reason = why]

\* load_runtime_policy: the RuntimePolicy, or the reason of RuntimePolicyInvalid
load_runtime_policy(raw) ==
    LET al == AsIntList(raw.allowed_levels, FALSE)
        allowed_set == SeqToSet(al.out)
        shapes == {ShapeOf(raw.allowed_shapes[i]) : i \in DOMAIN raw.allowed_shapes}
        hreq == raw.layers.hierarchy_required
        rreq == raw.layers.repair_required
        hchild == AsIntList(raw.hierarchy_repair_rules.child_levels, ~hreq)
        rchild == AsIntList(raw.repair_rules.child_levels, ~rreq)
        optional == OptionalLayersLoop(OptionalLayersRaw(raw), {}, <<>>)
    IN  IF ~al.ok THEN Rejected("allowed_levels must be a non-empty list.")
        ELSE IF raw.allowed_shapes = <<>>
        THEN Rejected("allowed_shapes must be a non-empty list.")
        ELSE IF \E i \in DOMAIN raw.allowed_shapes : raw.allowed_shapes[i] = <<>>
        THEN Rejected("allowed_shapes entries must be non-empty integer lists.")
        ELSE IF \E sh \in shapes : \E l \in SeqToSet(sh) : l \notin allowed_set
        THEN Rejected("allowed_shapes contains levels outside allowed_levels.")
        ELSE IF raw.shape_status = <<>>
        THEN Rejected("shape_status must be a non-empty list.")
        ELSE IF \E i \in DOMAIN raw.shape_status : raw.shape_status[i].levels = <<>>
        THEN Rejected("shape_status.levels must be a non-empty list.")
        ELSE IF \E i \in DOMAIN raw.shape_status :
                    raw.shape_status[i].status \notin StatusValues
        THEN Rejected("shape_status.status must be one of ok/partial/failed.")
        ELSE IF \E i \in DOMAIN raw.shape_status :
                    ShapeOf(raw.shape_status[i].levels) \notin shapes
        THEN Rejected("shape_status references shape not in allowed_shapes.")
        ELSE IF ~hchild.ok
        THEN Rejected("hierarchy_repair_rules.child_levels must be a non-empty list.")
        ELSE IF ~rchild.ok
        THEN Rejected("repair_rules.child_levels must be a non-empty list.")
        ELSE IF raw.hierarchy_repair_rules.parent_level \notin allowed_set
        THEN Rejected("hierarchy_repair_rules.parent_level must be in allowed_levels.")
        ELSE IF raw.repair_rules.parent_level \notin allowed_set
        THEN Rejected("repair_rules.parent_level must be in allowed_levels.")
        ELSE IF \E c \in SeqToSet(hchild.out) : c \notin allowed_set
        THEN Rejected("hierarchy_repair_rules.child_levels must be in allowed_levels.")
        ELSE IF \E c \in SeqToSet(rchild.out) : c \notin allowed_set
        THEN Rejected("repair_rules.child_levels must be in allowed_levels.")
        ELSE IF ~optional.ok THEN Rejected(optional.reason)
        ELSE [valid |-> TRUE, reason |-> "",
              allowed_levels |-> SetToSortedSeq(allowed_set),
              allowed_shapes |-> shapes,
              shape_status_map |-> BuildShapeStatusMap(raw.shape_status, <<>>),
              hierarchy_parent_level |-> raw.hierarchy_repair_rules.parent_level,
              hierarchy_child_levels |-> SeqToSet(hchild.out),
              repair_parent_level |-> raw.repair_rules.parent_level,
              repair_child_levels |-> SeqToSet(rchild.out),
              hierarchy_required |-> hreq,
              repair_required |-> rreq,
              optional_layers |-> optional.layers]

----------------------------------------------------------------------------
(* cadis-core: AdminEngineCore                                             *)

\* Python's None
None == "<None>"

\* node[f] = v
WithField(node, f, v) ==
    [x \in (DOMAIN node) \cup {f} |-> IF x = f THEN v ELSE node[x]]
\* node.get(f, default)
NodeGet(node, f, default) == IF f \in DOMAIN node THEN node[f] ELSE default
\* node.setdefault(f, default)
SetDefault(node, f, default) == IF f \in DOMAIN node THEN node ELSE WithField(node, f, default)
\* copy.deepcopy(node): an equal object that is private to the call
DeepCopy(node) == WithField(node, "ref", "")

\* filter_allowed_levels
filter_allowed_levels(nodes, allowed_levels) ==
    SelectSeq(nodes, LAMBDA n : "level" \in DOMAIN n /\ n.level \in SeqToSet(allowed_levels))

RECURSIVE InsertByLevel(_, _)
\* n placed after every node of sorted list s whose level is <= its own
InsertByLevel(s, n) ==
    IF s = <<>> THEN <<n>>
    ELSE IF s[Len(s)].level <= n.level THEN Append(s, n)
    ELSE Append(InsertByLevel(SubSeq(s, 1, Len(s) - 1), n), s[Len(s)])

RECURSIVE SortFrom(_, _)
SortFrom(nodes, acc) ==
    IF nodes = <<>> THEN acc ELSE SortFrom(Tail(nodes), InsertByLevel(acc, Head(nodes)))

SortByLevelUnsorted(nodes) == nodes

\* sort_by_level: sorted(nodes, key=level), stable
sort_by_level(nodes) == SortFrom(nodes, <<>>)

DedupeKey(n) ==
    <<NodeGet(n, "level", None), NodeGet(n, "osm_id", None),
      NodeGet(n, "name", None), NodeGet(n, "source", None)>>

RECURSIVE DedupeLoop(_, _, _)
DedupeLoop(nodes, seen, unique) ==
    IF nodes = <<>> THEN unique
    ELSE IF DedupeKey(Head(nodes)) \in seen THEN DedupeLoop(Tail(nodes), seen, unique)
    ELSE DedupeLoop(Tail(nodes), seen \cup {DedupeKey(Head(nodes))},
                    Append(unique, Head(nodes)))

\* deduplicate: first node of each key (level, osm_id, name, source)
deduplicate(nodes) == DedupeLoop(nodes, {}, <<>>)

RECURSIVE CollectGeometryLoop(_, _, _)
CollectGeometryLoop(raw, keys, geometry) ==
    IF keys = <<>> THEN geometry
    ELSE LET level == Head(keys)
             node0 == DeepCopy(DictGet(raw, level))
             node1 == WithField(node0, "level", NodeGet(node0, "level", level))
             node2 == SetDefault(node1, "source", "polygon")
             node3 == WithField(node2, "evidence_type", "geometry")
         IN  CollectGeometryLoop(raw, Tail(keys), DictSet(geometry, level, node3))

\* collect_geometry_evidence
collect_geometry_evidence(polygon_hits_) ==
    CollectGeometryLoop(polygon_hits_, SortedKeys(polygon_hits_), <<>>)

RECURSIVE NormalizeLoopNoCopy(_, _, _, _, _, _, _)
NormalizeLoopNoCopy(supplement_nodes, keys, source_default, evidence_type_default, allowed, existing_levels, acc) ==
    IF keys = <<>> THEN acc
    ELSE LET level == Head(keys)
             node0 == DictGet(supplement_nodes, level)
             node1 == WithField(node0, "level", NodeGet(node0, "level", level))
             node2 == SetDefault(node1, "source", source_default)
             node3 == WithField(node2, "evidence_type", evidence_type_default)
         IN  IF level \in existing_levels \/ level \notin allowed
             THEN NormalizeLoopNoCopy(supplement_nodes, Tail(keys), source_default,
                                      evidence_type_default, allowed, existing_levels, acc)
             ELSE NormalizeLoopNoCopy(supplement_nodes, Tail(keys), source_default,
                                      evidence_type_default, allowed, existing_levels,
                                      DictSet(acc, level, node3))

RECURSIVE NormalizeLoop(_, _, _, _, _, _, _)
\* the loop of _normalize_supplement_nodes over sorted(supplement_nodes.keys())
NormalizeLoop(supplement_nodes, keys, source_default, evidence_type_default, allowed, existing_levels, acc) ==
    IF keys = <<>> THEN acc
    ELSE LET level == Head(keys)
             node0 == DeepCopy(DictGet(supplement_nodes, level))
             node1 == WithField(node0, "level", NodeGet(node0, "level", level))
             node2 == SetDefault(node1, "source", source_default)
             node3 == WithField(node2, "evidence_type", evidence_type_default)
         IN  IF level \in existing_levels \/ level \notin allowed
             THEN NormalizeLoop(supplement_nodes, Tail(keys), source_default,
                                evidence_type_default, allowed, existing_levels, acc)
             ELSE NormalizeLoop(supplement_nodes, Tail(keys), source_default,
                                evidence_type_default, allowed, existing_levels,
                                DictSet(acc, level, node3))

\* _normalize_supplement_nodes
normalize_supplement_nodes(supplement_nodes, source_default, evidence_type_default, allowed_levels, existing_levels) ==
    NormalizeLoop(supplement_nodes, SortedKeys(supplement_nodes), source_default,
                  evidence_type_default, SeqToSet(allowed_levels), existing_levels, <<>>)

RECURSIVE MergeLayer(_, _, _)
MergeLayer(layer, keys, merged) ==
    IF keys = <<>> THEN merged
    ELSE MergeLayer(layer, Tail(keys),
                    IF DictHas(merged, Head(keys)) THEN merged
                    ELSE DictSet(merged, Head(keys), DeepCopy(DictGet(layer, Head(keys)))))

RECURSIVE MergeLayers(_, _)
MergeLayers(layers, merged) ==
    IF layers = <<>> THEN merged
    ELSE MergeLayers(Tail(layers), MergeLayer(Head(layers), SortedKeys(Head(layers)), merged))

\* _merge_evidence_in_priority_order(*layers): first layer to hold a level wins
merge_evidence_in_priority_order(layers) == MergeLayers(layers, <<>>)

\* tuple(sorted({int(n["level"]) for n in nodes if n.get("level") is not None}))
ShapeOfNodes(nodes) ==
    SetToSortedSeq({nodes[i].level : i \in {j \in DOMAIN nodes : "level" \in DOMAIN nodes[j]}})

ValidateAllowedShapesNoMap(nodes, allowed_shapes, shape_status_map) ==
    LET shape == ShapeOfNodes(nodes)
    IN  <<IF shape \notin allowed_shapes THEN "failed" ELSE "partial", shape>>

\* validate_allowed_shapes: <<status, shape>>
validate_allowed_shapes(nodes, allowed_shapes, shape_status_map) ==
    LET shape == ShapeOfNodes(nodes)
    IN  <<IF shape \notin allowed_shapes THEN "failed"
          ELSE IF shape_status_map # <<>> /\ DictHas(shape_status_map, shape)
          THEN DictGet(shape_status_map, shape)
          ELSE "partial",
          shape>>

\* _assign_rank
assign_rank(nodes) == [i \in DOMAIN nodes |-> WithField(DeepCopy(nodes[i]), "rank", i - 1)]

\* build_base_result
build_base_result(nodes, status, engine, version, country_name) ==
    [lookup_status |-> status, engine |-> engine, version |-> version,
     result |-> [country |-> [level |-> 2, name |-> country_name],
                 admin_hierarchy |->
                     [i \in DOMAIN nodes |->
                         [rank |-> nodes[i].rank,
                          osm_id |-> NodeGet(nodes[i], "osm_id", None),
                          level |-> nodes[i].level,
                          name |-> nodes[i].name,
                          source |-> NodeGet(nodes[i], "source", "polygon")]],
                 semantic_overlays |-> <<>>]]

\* assemble_result
assemble_result(nodes, status, engine, version, country_name) ==
    build_base_result(assign_rank(sort_by_level(nodes)), status, engine, version, country_name)

----------------------------------------------------------------------------
(* cadis_runtime.execution.pipeline: providers, status, and the providers  *)
(* handed to the core.  A provider is [kind |-> "absent"] (None),          *)
(* [kind |-> "runtime"] (the bound method of CadisLookupPipeline) or       *)
(* [kind |-> "fixed", result |-> dict] (a callable returning that dict).   *)
(* rt is the runtime instance: [policy, hierarchy_parent_map,              *)
(* repair_anchor_map].                                                     *)

HierarchyChildLoopAnyEntry(rt, evidence, child_levels, parent_level) ==
    IF rt.hierarchy_parent_map = <<>> THEN <<>>
    ELSE <<[k |-> parent_level, v |-> rt.hierarchy_parent_map[1].v]>>

RECURSIVE HierarchyChildLoopDescending(_, _, _, _)
HierarchyChildLoopDescending(rt, evidence, child_levels, parent_level) ==
    IF child_levels = <<>> THEN <<>>
    ELSE LET child_level == child_levels[Len(child_levels)]
             rest == SubSeq(child_levels, 1, Len(child_levels) - 1)
             name == IF DictHas(evidence, child_level)
                     THEN NodeGet(DictGet(evidence, child_level), "name", None)
                     ELSE None
         IN  IF name = None \/ name = ""
             THEN HierarchyChildLoopDescending(rt, evidence, rest, parent_level)
             ELSE IF DictHas(rt.hierarchy_parent_map, name)
             THEN <<[k |-> parent_level, v |-> DictGet(rt.hierarchy_parent_map, name)]>>
             ELSE HierarchyChildLoopDescending(rt, evidence, rest, parent_level)

RECURSIVE HierarchyChildLoop(_, _, _, _)
\* the loop of _hierarchy_provider over sorted(hierarchy_child_levels)
HierarchyChildLoop(rt, evidence, child_levels, parent_level) ==
    IF child_levels = <<>> THEN <<>>
    ELSE LET child_level == Head(child_levels)
             name == IF DictHas(evidence, child_level)
                     THEN NodeGet(DictGet(evidence, child_level), "name", None)
                     ELSE None
         IN  IF name = None \/ name = ""
             THEN HierarchyChildLoop(rt, evidence, Tail(child_levels), parent_level)
             ELSE IF DictHas(rt.hierarchy_parent_map, name)
             THEN <<[k |-> parent_level, v |-> DictGet(rt.hierarchy_parent_map, name)]>>
             ELSE HierarchyChildLoop(rt, evidence, Tail(child_levels), parent_level)

\* CadisLookupPipeline._hierarchy_provider
hierarchy_provider(rt, evidence, missing_levels) ==
    IF ~rt.policy.hierarchy_required THEN <<>>
    ELSE IF rt.policy.hierarchy_parent_level \notin missing_levels THEN <<>>
    ELSE HierarchyChildLoop(rt, evidence, SetToSortedSeq(rt.policy.hierarchy_child_levels),
                            rt.policy.hierarchy_parent_level)

RECURSIVE RepairChildLoop(_, _, _, _)
\* the loop of _repair_provider over sorted(repair_child_levels)
RepairChildLoop(rt, evidence, child_levels, parent_level) ==
    IF child_levels = <<>> THEN <<>>
    ELSE LET child_level == Head(child_levels)
             name == IF DictHas(evidence, child_level)
                     THEN NodeGet(DictGet(evidence, child_level), "name", None)
                     ELSE None
         IN  IF name = None \/ name = ""
             THEN RepairChildLoop(rt, evidence, Tail(child_levels), parent_level)
             ELSE IF DictHas(rt.repair_anchor_map, name)
             THEN <<[k |-> parent_level,
                     v |-> [level |-> parent_level,
                            name |-> DictGet(rt.repair_anchor_map, name)[1],
                            osm_id |-> DictGet(rt.repair_anchor_map, name)[2],
                            source |-> "semantic_anchor", ref |-> ""]]>>
             ELSE RepairChildLoop(rt, evidence, Tail(child_levels), parent_level)

\* CadisLookupPipeline._repair_provider
repair_provider(rt, evidence, missing_levels) ==
    IF ~rt.policy.repair_required THEN <<>>
    ELSE IF rt.policy.repair_parent_level \notin missing_levels THEN <<>>
    ELSE RepairChildLoop(rt, evidence, SetToSortedSeq(rt.policy.repair_child_levels),
                         rt.policy.repair_parent_level)

EvaluateLookupStatusDefaultOk(nodes, allowed_shapes, shape_status_map) ==
    IF nodes = <<>> THEN "failed"
    ELSE IF ShapeOfNodes(nodes) \notin allowed_shapes THEN "failed"
    ELSE IF DictHas(shape_status_map, ShapeOfNodes(nodes))
    THEN DictGet(shape_status_map, ShapeOfNodes(nodes))
    ELSE "ok"

EvaluateLookupStatusNoShapeCheck(nodes, allowed_shapes, shape_status_map) ==
    IF nodes = <<>> THEN "failed"
    ELSE IF DictHas(shape_status_map, ShapeOfNodes(nodes))
    THEN DictGet(shape_status_map, ShapeOfNodes(nodes))
    ELSE "partial"

\* evaluate_lookup_status
evaluate_lookup_status(nodes, allowed_shapes, shape_status_map) ==
    IF nodes = <<>> THEN "failed"
    ELSE IF ShapeOfNodes(nodes) \notin allowed_shapes THEN "failed"
    ELSE IF DictHas(shape_status_map, ShapeOfNodes(nodes))
    THEN DictGet(shape_status_map, ShapeOfNodes(nodes))
    ELSE "partial"

\* hierarchy_provider(geometry_evidence, missing_levels) or {}
CallHierarchyProvider(prov, rt, evidence, missing_levels) ==
    IF prov.kind = "runtime" THEN hierarchy_provider(rt, evidence, missing_levels)
    ELSE prov.result

\* repair_provider(merged_evidence, missing_levels) or {}
CallRepairProvider(prov, rt, evidence, missing_levels) ==
    IF prov.kind = "runtime" THEN repair_provider(rt, evidence, missing_levels)
    ELSE prov.result

\* the provider call of supplement_from_hierarchy:
\* raw = hierarchy_provider(geometry_evidence, missing_levels) or {}
HierarchyRaw(geometry_evidence, allowed_levels, prov, rt) ==
    LET missing_levels == SeqToSet(allowed_levels) \ DictKeys(geometry_evidence)
    IN  IF prov.kind # "absent" /\ missing_levels # {}
        THEN CallHierarchyProvider(prov, rt, geometry_evidence, missing_levels)
        ELSE <<>>

\* supplement_from_hierarchy
supplement_from_hierarchy(geometry_evidence, allowed_levels, prov, rt) ==
    normalize_supplement_nodes(HierarchyRaw(geometry_evidence, allowed_levels, prov, rt),
                               "admin_tree_name", "hierarchy_repair",
                               allowed_levels, DictKeys(geometry_evidence))

\* supplement_from_repair_dataset
supplement_from_repair_dataset(merged_evidence, allowed_levels, prov, rt) ==
    LET missing_levels == SeqToSet(allowed_levels) \ DictKeys(merged_evidence)
        raw == IF prov.kind # "absent" /\ missing_levels # {}
               THEN CallRepairProvider(prov, rt, merged_evidence, missing_levels)
               ELSE <<>>
    IN  normalize_supplement_nodes(raw, "semantic_anchor", "semantic_anchor",
                                   allowed_levels, DictKeys(merged_evidence))

FinalNodesKeepFailed(nodes, status) == nodes

\* final_nodes = nodes if status != "failed" else []
FinalNodes(nodes, status) == IF status # "failed" THEN nodes ELSE <<>>

\* the tail of run_v2_shadow_pipeline, from the three layers of evidence on
PipelineTail(geometry, hierarchy_supplement, repair_supplement, allowed_levels, allowed_shapes, evaluator, shape_status_map, rt, country_name) ==
    LET merged == merge_evidence_in_priority_order(
                      <<geometry, hierarchy_supplement, repair_supplement>>)
        nodes == deduplicate(sort_by_level(
                     filter_allowed_levels(DictValues(merged), allowed_levels)))
        validated == validate_allowed_shapes(nodes, allowed_shapes, shape_status_map)
        status == IF evaluator.kind = "absent" THEN validated[1]
                  ELSE evaluate_lookup_status(nodes, rt.policy.allowed_shapes,
                                              rt.policy.shape_status_map)
        final_nodes == FinalNodes(nodes, status)
    IN  [public |-> assemble_result(final_nodes, status, "cadis", "version", country_name),
         internal |-> [nodes |-> assign_rank(final_nodes), status |-> status],
         stages |-> [geometry |-> geometry, hierarchy |-> hierarchy_supplement,
                     repair |-> repair_supplement, shape |-> validated[2]]]

\* AdminEngineCore.run_v2_shadow_pipeline
run_v2_shadow_pipeline(polygon_hits_, allowed_levels, allowed_shapes, hprov, rprov, evaluator, shape_status_map, rt, country_name) ==
    LET geometry == collect_geometry_evidence(polygon_hits_)
        hierarchy_supplement == supplement_from_hierarchy(geometry, allowed_levels, hprov, rt)
        merged_after_hierarchy ==
            merge_evidence_in_priority_order(<<geometry, hierarchy_supplement>>)
        repair_supplement ==
            supplement_from_repair_dataset(merged_after_hierarchy, allowed_levels, rprov, rt)
    IN  PipelineTail(geometry, hierarchy_supplement, repair_supplement, allowed_levels,
                     allowed_shapes, evaluator, shape_status_map, rt, country_name)

----------------------------------------------------------------------------
(* Semantic overlays.  An overlay object is [kind |-> "semantic", ...], a  *)
(* SemanticOverlay, or an object of another class whose apply() changes    *)
(* the structure of the bundle (kind names what it changes):               *)
(* apply_semantic_overlays calls overlay.apply(out) on whatever it is      *)
(* given and checks the result afterwards.                                 *)

Hierarchy(b) == b.result.admin_hierarchy
WithHierarchy(b, h) == [b EXCEPT !.result.admin_hierarchy = h]

\* SemanticOverlay.apply
SemanticOverlayApply(o, public_bundle) ==
    LET withMeta ==
            IF o.result_metadata # <<>>
            THEN [public_bundle EXCEPT !.result.semantic_overlays =
                      DictSet(public_bundle.result.semantic_overlays, o.name,
                              o.result_metadata)]
            ELSE public_bundle
        h == Hierarchy(withMeta)
    IN  IF o.name_overrides_by_osm_id # <<>>
        THEN WithHierarchy(withMeta,
                 [i \in DOMAIN h |->
                     IF h[i].osm_id # None /\ DictHas(o.name_overrides_by_osm_id, h[i].osm_id)
                     THEN [h[i] EXCEPT !.name = DictGet(o.name_overrides_by_osm_id, h[i].osm_id)]
                     ELSE h[i]])
        ELSE withMeta

\* overlay.apply(out), by the class of the overlay object
OverlayApply(o, b) ==
    LET h == Hierarchy(b)
    IN  CASE o.kind = "semantic" -> SemanticOverlayApply(o, b)
          [] o.kind = "set_status" -> [b EXCEPT !.lookup_status = "ok"]
          [] o.kind = "drop_node" ->
                 WithHierarchy(b, IF h = <<>> THEN h ELSE SubSeq(h, 1, Len(h) - 1))
          [] o.kind = "rewrite_osm_id" ->
                 WithHierarchy(b, [i \in DOMAIN h |-> [h[i] EXCEPT !.osm_id = "X"]])
          [] o.kind = "rewrite_level" ->
                 WithHierarchy(b, [i \in DOMAIN h |-> [h[i] EXCEPT !.level = 2]])
          [] o.kind = "rewrite_rank" ->
                 WithHierarchy(b, [i \in DOMAIN h |-> [h[i] EXCEPT !.rank = Len(h) - i]])

RECURSIVE ApplyAll(_, _)
\* for overlay in overlays: out = overlay.apply(out)
ApplyAll(overlays, b) ==
    IF overlays = <<>> THEN b ELSE ApplyAll(Tail(overlays), OverlayApply(Head(overlays), b))

OsmIds(b) == [i \in DOMAIN Hierarchy(b) |-> Hierarchy(b)[i].osm_id]
Levels(b) == [i \in DOMAIN Hierarchy(b) |-> Hierarchy(b)[i].level]
Ranks(b) == [i \in DOMAIN Hierarchy(b) |-> Hierarchy(b)[i].rank]

ApplySemanticOverlaysNoRankCheck(public_bundle, overlays) ==
    LET result == ApplyAll(overlays, public_bundle)
    IN  IF overlays = <<>> THEN [raised |-> FALSE, value |-> public_bundle]
        ELSE IF result.lookup_status # public_bundle.lookup_status
        THEN [raised |-> TRUE, value |-> public_bundle]
        ELSE IF Len(Hierarchy(result)) # Len(Hierarchy(public_bundle))
        THEN [raised |-> TRUE, value |-> public_bundle]
        ELSE IF OsmIds(result) # OsmIds(public_bundle)
        THEN [raised |-> TRUE, value |-> public_bundle]
        ELSE IF Levels(result) # Levels(public_bundle)
        THEN [raised |-> TRUE, value |-> public_bundle]
        ELSE [raised |-> FALSE, value |-> result]

\* apply_semantic_overlays: [raised |-> TRUE] for RuntimeError, else the bundle
apply_semantic_overlays(public_bundle, overlays) ==
    LET result == ApplyAll(overlays, public_bundle)
    IN  IF overlays = <<>> THEN [raised |-> FALSE, value |-> public_bundle]
        ELSE IF result.lookup_status # public_bundle.lookup_status
        THEN [raised |-> TRUE, value |-> public_bundle]
        ELSE IF Len(Hierarchy(result)) # Len(Hierarchy(public_bundle))
        THEN [raised |-> TRUE, value |-> public_bundle]
        ELSE IF OsmIds(result) # OsmIds(public_bundle)
        THEN [raised |-> TRUE, value |-> public_bundle]
        ELSE IF Levels(result) # Levels(public_bundle)
        THEN [raised |-> TRUE, value |-> public_bundle]
        ELSE IF Ranks(result) # Ranks(public_bundle)
        THEN [raised |-> TRUE, value |-> public_bundle]
        ELSE [raised |-> FALSE, value |-> result]

RECURSIVE WriteBack(_, _)
\* the write that a node of the supplement which is an object of
\* hierarchy_parent_map (ref # "") has received: the map holds that object
WriteBack(hmap, nodes) ==
    IF nodes = <<>> THEN hmap
    ELSE WriteBack(IF Head(nodes).ref # "" /\ DictHas(hmap, Head(nodes).ref)
                   THEN DictSet(hmap, Head(nodes).ref, Head(nodes))
                   ELSE hmap,
                   Tail(nodes))

\* CadisLookupPipeline.lookup(lat, lon), up to the overlays
LookupBundle(rt, idx, lat, lon) ==
    run_v2_shadow_pipeline(QueryPoint(idx, <<lon, lat>>, rt.policy.allowed_levels),
                           rt.policy.allowed_levels, rt.policy.allowed_shapes,
                           [kind |-> "runtime"], [kind |-> "runtime"], [kind |-> "runtime"],
                           <<>>, rt, "Country")

----------------------------------------------------------------------------
(* cadis_runtime.dataset.loader: the hierarchy and repair maps             *)

\* the places of the nodes of the file with that id ("if n.get('id')")
NodesWithId(nodes, id) == {i \in DOMAIN nodes : nodes[i].id # "" /\ nodes[i].id = id}

\* node_by_id[id]: the last node of the file with that id
NodeById(nodes, id) ==
    nodes[CHOOSE i \in NodesWithId(nodes, id) : \A j \in NodesWithId(nodes, id) : j <= i]

RECURSIVE HierarchyMapLoop(_, _, _, _, _)
HierarchyMapLoop(nodes, i, child_levels, parent_level, by_child_name) ==
    IF i > Len(nodes) THEN by_child_name
    ELSE LET node == nodes[i]
             parent == NodeById(nodes, node.parent_id)
         IN  IF node.level \notin child_levels
             THEN HierarchyMapLoop(nodes, i + 1, child_levels, parent_level, by_child_name)
             ELSE IF NodesWithId(nodes, node.parent_id) = {}
             THEN HierarchyMapLoop(nodes, i + 1, child_levels, parent_level, by_child_name)
             ELSE IF parent.level # parent_level
             THEN HierarchyMapLoop(nodes, i + 1, child_levels, parent_level, by_child_name)
             ELSE IF node.name = ""
             THEN HierarchyMapLoop(nodes, i + 1, child_levels, parent_level, by_child_name)
             ELSE HierarchyMapLoop(nodes, i + 1, child_levels, parent_level,
                      DictSet(by_child_name, node.name,
                              [level |-> parent_level, name |-> parent.name,
                               osm_id |-> parent.id, source |-> "admin_tree_name",
                               ref |-> node.name]))

\* load_hierarchy_parent_map; the object stored under a child name has that
\* name as its ref
load_hierarchy_parent_map(nodes, child_levels, parent_level) ==
    HierarchyMapLoop(nodes, 1, child_levels, parent_level, <<>>)

RECURSIVE RepairMapLoop(_, _, _)
RepairMapLoop(anchors, canonical, normalized) ==
    IF anchors = <<>> THEN normalized
    ELSE LET l8_name == Head(anchors).k
             mapping == Head(anchors).v
             l4_id == mapping.id
             name0 == IF mapping.kind = "flat"
                      THEN (IF DictHas(canonical, mapping.id)
                            THEN DictGet(canonical, mapping.id) ELSE None)
                      ELSE mapping.name
             l4_name == IF name0 = None \/ name0 = ""
                        THEN (IF DictHas(canonical, l4_id)
                              THEN DictGet(canonical, l4_id) ELSE None)
                        ELSE name0
         IN  IF l8_name = "" \/ l4_id = None \/ l4_id = ""
             THEN RepairMapLoop(Tail(anchors), canonical, normalized)
             ELSE IF l4_name = None \/ l4_name = ""
             THEN RepairMapLoop(Tail(anchors), canonical, normalized)
             ELSE RepairMapLoop(Tail(anchors), canonical,
                                DictSet(normalized, l8_name, <<l4_name, l4_id>>))

\* load_repair_anchor_map; a mapping is [kind |-> "flat", id] (a string) or
\* [kind |-> "structured", id, name] ({l4_semantic_id, l4_name})
load_repair_anchor_map(file) == RepairMapLoop(file.l8_to_l4_anchor, file.canonical_l4, <<>>)

----------------------------------------------------------------------------
(* Values of the variables a specification does not use, and of a call     *)
(* that has not happened                                                   *)

NoPolicy == NoPolicyFields

NoPublic ==
    [lookup_status |-> "none", engine |-> "", version |-> "",
     result |-> [country |-> [level |-> 2, name |-> ""], admin_hierarchy |-> <<>>,
                 semantic_overlays |-> <<>>]]

NoBundle ==
    [public |-> NoPublic,
     internal |-> [nodes |-> <<>>, status |-> "none"],
     stages |-> [geometry |-> <<>>, hierarchy |-> <<>>, repair |-> <<>>, shape |-> <<>>]]

NoOut == [raised |-> FALSE, value |-> NoPublic]

CallIdle ==
    /\ last_op = "none"
    /\ pt = <<0, 0>>
    /\ levels = <<>>
    /\ polygon_hits = <<>>
    /\ bundle = NoBundle
    /\ base = NoPublic
    /\ applied = <<>>
    /\ out = NoOut

ConcIdle ==
    /\ th = <<>>
    /\ loaded = <<>>

NearIdle == max_km = 0

BootIdle ==
    /\ fs = <<>>
    /\ server = <<>>
    /\ boot = <<>>

\* the caller has consumed the result of the last call
Return ==
    /\ last_op # "none"
    /\ last_op' = "none"
    /\ pt' = <<0, 0>>
    /\ levels' = <<>>
    /\ polygon_hits' = <<>>
    /\ bundle' = NoBundle
    /\ base' = NoPublic
    /\ applied' = <<>>
    /\ out' = NoOut
    /\ UNCHANGED <<nearVars, bootVars, runtimeVars, concVars>>

Points == (0 .. GridMax) \X (0 .. GridMax)

----------------------------------------------------------------------------
(* Geometry specification: query_point on indexes of MaxFeatures features  *)

\* parts: a world-space bounding box and rings in the quantized space of it
SquareWithHole ==
    [bbox |-> <<0, 0, QMax, QMax>>,
     rings |-> << << <<0, 0>>, <<4, 0>>, <<4, 4>>, <<0, 4>> >>,
                  << <<1, 1>>, <<3, 1>>, <<3, 3>>, <<1, 3>> >> >>]
Triangle ==
    [bbox |-> <<0, 0, 2 * QMax, 2 * QMax>>,
     rings |-> << << <<0, 0>>, <<2, 0>>, <<0, 2>> >> >>]
SmallSquare ==
    [bbox |-> <<2, 2, 2 + QMax, 2 + QMax>>,
     rings |-> << << <<0, 0>>, <<2, 0>>, <<2, 2>>, <<0, 2>>, <<0, 0>> >> >>]

PartLists ==
    {<<SquareWithHole>>, <<Triangle>>, <<SmallSquare>>, <<Triangle, SmallSquare>>}

FeatureNames == <<"N1", "N2", "N3", "N4">>
FeatureIds == <<"F1", "F2", "F3", "F4">>

\* indexes of MaxFeatures features; geometry_meta.json gives level, name, feature_id
GeomIndexes ==
    {[i \in 1 .. MaxFeatures |->
        [level |-> lv[i], name |-> FeatureNames[i], feature_id |-> FeatureIds[i],
         parts |-> ps[i]]] :
        lv \in [1 .. MaxFeatures -> {6, 8}], ps \in [1 .. MaxFeatures -> PartLists]}

LevelLists == {<<6, 8>>, <<6>>, <<8>>, <<4, 6, 8>>}

InitGeom ==
    /\ phase = "ready"
    /\ raw_policy = <<>>
    /\ policy = NoPolicy
    /\ index \in GeomIndexes
    /\ hierarchy_parent_map = <<>>
    /\ repair_anchor_map = <<>>
    /\ semantic_overlays = <<>>
    /\ CallIdle
    /\ NearIdle
    /\ BootIdle
    /\ ConcIdle

\* one call of FFSFSpatialIndexV3.query_point
QueryPointCall(p, lvls) ==
    /\ last_op = "none"
    /\ last_op' = "query"
    /\ pt' = p
    /\ levels' = lvls
    /\ polygon_hits' = QueryPoint(index, p, lvls)
    /\ UNCHANGED <<nearVars, bootVars, bundle, base, applied, out, runtimeVars, concVars>>

QueryStep == \E p \in Points, lvls \in LevelLists : QueryPointCall(p, lvls)

NextGeom == QueryStep \/ Return

SpecGeom == InitGeom /\ [][NextGeom]_vars

\* the features of a level that contain the point, by feature index
Containing(idx, p, L) ==
    {i \in DOMAIN idx : idx[i].level = L /\ FeatureContainsPoint(idx[i], p)}

FirstContaining(idx, p, L) ==
    CHOOSE i \in Containing(idx, p, L) : \A j \in Containing(idx, p, L) : i <= j

\* C9: query_point returns, for each requested level, the containing feature
\* of the smallest feature index, and nothing for the other levels
C9_FirstWinsByFeatureOrder ==
    last_op = "query" =>
        /\ DictKeys(polygon_hits) =
               {L \in SeqToSet(levels) : Containing(index, pt, L) # {}}
        /\ \A L \in DictKeys(polygon_hits) :
               DictGet(polygon_hits, L) = PolygonHit(index[FirstContaining(index, pt, L)])

\* two features of one requested level contain the point, the scan went past
\* the first of them, and a second requested level is resolved as well
C9_Witness ==
    /\ last_op = "query"
    /\ \E L \in SeqToSet(levels) : Cardinality(Containing(index, pt, L)) >= 2
    /\ Len(polygon_hits) >= 1
    /\ Len(levels) >= 2

\* the quantized query point lies on an edge of the ring
OnRingEdge(ring, qx, qy) ==
    \E i \in DOMAIN ring :
        LET j == IF i = 1 THEN Len(ring) ELSE i - 1
        IN  PointOnSegment(qx, qy, ring[j][1], ring[j][2], ring[i][1], ring[i][2])

InBBox(part, p) ==
    /\ part.bbox[1] <= p[1] /\ p[1] <= part.bbox[3]
    /\ part.bbox[2] <= p[2] /\ p[2] <= part.bbox[4]

OnPartBoundary(part, p) ==
    /\ InBBox(part, p)
    /\ \E r \in DOMAIN part.rings :
          OnRingEdge(part.rings[r],
                     Quantize(p[1], part.bbox[1], part.bbox[3] - part.bbox[1]),
                     Quantize(p[2], part.bbox[2], part.bbox[4] - part.bbox[2]))

\* C10: a point on an edge of any ring of a part (outer ring or hole) is
\* inside the part, and query_point returns a feature at that level
C10_BoundaryIsInside ==
    last_op = "query" =>
        \A f \in DOMAIN index : \A i \in DOMAIN index[f].parts :
            OnPartBoundary(index[f].parts[i], pt) =>
                /\ PartContainsPoint(index[f].parts[i], pt)
                /\ index[f].level \in SeqToSet(levels) =>
                       DictHas(polygon_hits, index[f].level)

----------------------------------------------------------------------------
(* Pipeline specification: datasets, the construction of the runtime       *)
(* instance, lookup, the core pipeline with injected providers, and        *)
(* apply_semantic_overlays                                                 *)

BigTriangle ==
    [bbox |-> <<0, 0, QMax, QMax>>,
     rings |-> << << <<0, 0>>, <<4, 0>>, <<4, 4>> >> >>]

\* geometry.ffsf and geometry_meta.json of the dataset
PipelineIndex ==
    << [level |-> 4, name |-> "N1", feature_id |-> "F1", parts |-> <<SquareWithHole>>],
       [level |-> 6, name |-> "N2", feature_id |-> "F2", parts |-> <<BigTriangle>>],
       [level |-> 8, name |-> "N3", feature_id |-> "F3", parts |-> <<SmallSquare>>],
       [level |-> 8, name |-> "N4", feature_id |-> "F4", parts |-> <<Triangle>>] >>

\* hierarchy.json: nodes
HierarchyFile ==
    << [id |-> "P1", level |-> 4, name |-> "Pref1", parent_id |-> ""],
       [id |-> "P2", level |-> 4, name |-> "Pref2", parent_id |-> ""],
       [id |-> "C6", level |-> 6, name |-> "N2", parent_id |-> "P1"],
       [id |-> "C8", level |-> 8, name |-> "N3", parent_id |-> "P2"],
       [id |-> "D8", level |-> 8, name |-> "N4", parent_id |-> "C6"] >>

\* repair.json
RepairFile ==
    [l8_to_l4_anchor |->
         << [k |-> "N3", v |-> [kind |-> "flat", id |-> "A1", name |-> None]],
            [k |-> "N4", v |-> [kind |-> "structured", id |-> "A2", name |-> "Anchor2"]],
            [k |-> "N2", v |-> [kind |-> "structured", id |-> "A1", name |-> None]],
            [k |-> "N9", v |-> [kind |-> "flat", id |-> "A9", name |-> None]] >>,
     canonical_l4 |-> << [k |-> "A1", v |-> "Anchor1"] >>]

ShapeStatus(l, st) == [levels |-> l, status |-> st]

\* allowed_levels, allowed_shapes and shape_status of runtime_policy.json
RawBases ==
    { [allowed_levels |-> <<4, 6, 8>>,
       allowed_shapes |-> << <<4, 6, 8>> >>,
       shape_status |-> << ShapeStatus(<<4, 6, 8>>, "ok") >>],
      [allowed_levels |-> <<8, 6, 4, 6>>,
       allowed_shapes |-> << <<8, 6, 4>>, <<6, 8>>, <<4, 8>>, <<8>>, <<4, 6>> >>,
       shape_status |-> << ShapeStatus(<<4, 6, 8>>, "ok"), ShapeStatus(<<8, 4>>, "partial"),
                           ShapeStatus(<<8>>, "failed") >>],
      [allowed_levels |-> <<6, 8>>,
       allowed_shapes |-> << <<6, 8>>, <<6>> >>,
       shape_status |-> << ShapeStatus(<<6, 8>>, "ok") >>],
      [allowed_levels |-> <<4, 6, 8>>,
       allowed_shapes |-> << <<4>>, <<4, 6>>, <<6>>, <<4, 6, 8>> >>,
       shape_status |-> << ShapeStatus(<<4>>, "failed"), ShapeStatus(<<4, 6>>, "partial"),
                           ShapeStatus(<<6, 4>>, "ok") >>],
      [allowed_levels |-> <<>>,
       allowed_shapes |-> << <<4>> >>,
       shape_status |-> << ShapeStatus(<<4>>, "ok") >>],
      [allowed_levels |-> <<4, 6>>,
       allowed_shapes |-> << <<4, 8>> >>,
       shape_status |-> << ShapeStatus(<<4, 8>>, "ok") >>],
      [allowed_levels |-> <<4, 6, 8>>,
       allowed_shapes |-> << <<4, 6>> >>,
       shape_status |-> << ShapeStatus(<<4, 6>>, "bogus") >>],
      [allowed_levels |-> <<4, 6, 8>>,
       allowed_shapes |-> << <<4, 6>> >>,
       shape_status |-> << ShapeStatus(<<6>>, "ok") >>] }

Rule(parent, children) == [parent_level |-> parent, child_levels |-> children]

\* hierarchy_repair_rules and repair_rules of runtime_policy.json
RawRules ==
    { [h |-> Rule(4, <<6, 8>>), r |-> Rule(4, <<8>>)],
      [h |-> Rule(6, <<8>>), r |-> Rule(4, <<8, 6>>)],
      [h |-> Rule(6, <<8>>), r |-> Rule(6, <<>>)] }

RawPolicies ==
    { [allowed_levels |-> b.allowed_levels, allowed_shapes |-> b.allowed_shapes,
       shape_status |-> b.shape_status,
       layers |-> [hierarchy_required |-> hr, repair_required |-> rr],
       hierarchy_repair_rules |-> ru.h, repair_rules |-> ru.r] :
        b \in RawBases, ru \in RawRules, hr \in BOOLEAN, rr \in BOOLEAN }

SemRename ==
    [kind |-> "semantic", name |-> "rename", result_metadata |-> <<>>,
     name_overrides_by_osm_id |-> << [k |-> "F2", v |-> "Renamed"], [k |-> "P1", v |-> "Pref"] >>]
SemMeta ==
    [kind |-> "semantic", name |-> "meta", result_metadata |-> << [k |-> "note", v |-> "x"] >>,
     name_overrides_by_osm_id |-> <<>>]

\* the overlays a dataset declares
OverlaySets == { <<>>, <<SemMeta, SemRename>> }

Tampering ==
    {[kind |-> c] : c \in {"set_status", "drop_node", "rewrite_osm_id",
                           "rewrite_level", "rewrite_rank"}}

\* the lists handed to apply_semantic_overlays
OverlayLists ==
    {<<o>> : o \in {SemRename, SemMeta} \cup Tampering}
        \cup {<<SemRename, t>> : t \in Tampering} \cup { <<>> }

\* what a provider passed to the core returns
FixedResults ==
    { <<>>,
      << [k |-> 4, v |-> [name |-> "X", osm_id |-> "P9", ref |-> ""]] >>,
      << [k |-> 4, v |-> [level |-> 6, name |-> "Y", osm_id |-> "P8", source |-> "custom",
                          ref |-> ""]] >>,
      << [k |-> 8, v |-> [level |-> 8, name |-> "Z", osm_id |-> "P7", ref |-> ""]],
         [k |-> 2, v |-> [level |-> 2, name |-> "W", osm_id |-> "P6", ref |-> ""]] >> }

Providers ==
    {[kind |-> "absent"], [kind |-> "runtime"]}
        \cup {[kind |-> "fixed", result |-> r] : r \in FixedResults}

Evaluators == {[kind |-> "absent"], [kind |-> "runtime"]}

\* polygon hits handed to the core
CoreHits ==
    { <<>>,
      << [k |-> 6, v |-> PolygonHit(PipelineIndex[2])] >>,
      << [k |-> 8, v |-> PolygonHit(PipelineIndex[3])],
         [k |-> 4, v |-> PolygonHit(PipelineIndex[1])] >>,
      << [k |-> 6, v |-> PolygonHit(PipelineIndex[2])],
         [k |-> 8, v |-> PolygonHit(PipelineIndex[4])] >> }

Init ==
    /\ phase = "dataset"
    /\ raw_policy \in RawPolicies
    /\ policy = NoPolicy
    /\ index = PipelineIndex
    /\ hierarchy_parent_map = <<>>
    /\ repair_anchor_map = <<>>
    /\ semantic_overlays \in OverlaySets
    /\ CallIdle
    /\ NearIdle
    /\ BootIdle
    /\ ConcIdle

\* CadisLookupPipeline.__init__: load the policy and the maps it requires
Construct ==
    /\ phase = "dataset"
    /\ LET pol == load_runtime_policy(raw_policy)
       IN  /\ policy' = pol
           /\ phase' = IF pol.valid THEN "ready" ELSE "rejected"
           /\ hierarchy_parent_map' =
                  IF pol.valid /\ pol.hierarchy_required
                  THEN load_hierarchy_parent_map(HierarchyFile, pol.hierarchy_child_levels,
                                                 pol.hierarchy_parent_level)
                  ELSE <<>>
           /\ repair_anchor_map' =
                  IF pol.valid /\ pol.repair_required
                  THEN load_repair_anchor_map(RepairFile)
                  ELSE <<>>
    /\ UNCHANGED <<nearVars, bootVars, raw_policy, index, semantic_overlays, callVars, concVars>>

Runtime ==
    [policy |-> policy, hierarchy_parent_map |-> hierarchy_parent_map,
     repair_anchor_map |-> repair_anchor_map]

\* CadisLookupPipeline.lookup(lat, lon)
Lookup(lat, lon) ==
    /\ phase = "ready"
    /\ last_op = "none"
    /\ LET b == LookupBundle(Runtime, index, lat, lon)
       IN  /\ last_op' = "lookup"
           /\ pt' = <<lon, lat>>
           /\ levels' = policy.allowed_levels
           /\ polygon_hits' = QueryPoint(index, <<lon, lat>>, policy.allowed_levels)
           /\ bundle' = b
           /\ base' = b.public
           /\ applied' = semantic_overlays
           /\ out' = apply_semantic_overlays(b.public, semantic_overlays)
           /\ hierarchy_parent_map' =
                  WriteBack(hierarchy_parent_map, DictValues(b.stages.hierarchy))
    /\ UNCHANGED <<nearVars, bootVars, phase, raw_policy, policy, index, repair_anchor_map,
                   semantic_overlays, concVars>>

\* AdminEngineCore.run_v2_shadow_pipeline with the providers and the status
\* evaluator of the caller, followed by apply_semantic_overlays
RunCore(hits, hprov, rprov, evaluator) ==
    /\ phase = "ready"
    /\ last_op = "none"
    /\ LET b == run_v2_shadow_pipeline(hits, policy.allowed_levels, policy.allowed_shapes,
                                       hprov, rprov, evaluator, policy.shape_status_map,
                                       Runtime, "Country")
       IN  /\ last_op' = "core"
           /\ pt' = <<0, 0>>
           /\ levels' = policy.allowed_levels
           /\ polygon_hits' = hits
           /\ bundle' = b
           /\ base' = b.public
           /\ applied' = semantic_overlays
           /\ out' = apply_semantic_overlays(b.public, semantic_overlays)
           /\ hierarchy_parent_map' =
                  WriteBack(hierarchy_parent_map, DictValues(b.stages.hierarchy))
    /\ UNCHANGED <<nearVars, bootVars, phase, raw_policy, policy, index, repair_anchor_map,
                   semantic_overlays, concVars>>

\* apply_semantic_overlays on the bundle of the last lookup
ApplyOverlays(overlays) ==
    /\ phase = "ready"
    /\ last_op = "lookup"
    /\ last_op' = "overlay"
    /\ base' = bundle.public
    /\ applied' = overlays
    /\ out' = apply_semantic_overlays(bundle.public, overlays)
    /\ UNCHANGED <<nearVars, bootVars, pt, levels, polygon_hits, bundle, runtimeVars, concVars>>

LookupStep == \E lat \in 0 .. GridMax, lon \in 0 .. GridMax : Lookup(lat, lon)

CoreStep ==
    \E hits \in CoreHits, hprov \in Providers, rprov \in Providers, ev \in Evaluators :
        RunCore(hits, hprov, rprov, ev)

OverlayStep == \E overlays \in OverlayLists : ApplyOverlays(overlays)

Next == Construct \/ LookupStep \/ CoreStep \/ OverlayStep \/ Return

Spec == Init /\ [][Next]_vars

----------------------------------------------------------------------------
(* Claims on the pipeline specification *)

Called == last_op \in {"lookup", "core", "overlay"}

\* C1: a bundle whose lookup_status is "failed" has an empty admin_hierarchy,
\* before and after the overlays
C1_FailedHasNoNodes ==
    Called =>
        /\ base.lookup_status = "failed" => Hierarchy(base) = <<>>
        /\ (~out.raised /\ out.value.lookup_status = "failed") =>
               Hierarchy(out.value) = <<>>

\* the merged nodes were not empty, the status is "failed", overlays applied
C1_Witness ==
    /\ last_op \in {"lookup", "core"}
    /\ bundle.stages.shape # <<>>
    /\ applied # <<>>
    /\ ~out.raised
    /\ out.value.lookup_status = "failed"

\* C2: the sorted set of levels of the bundle that lookup returns is in
\* policy.allowed_shapes iff its lookup_status is not "failed"
C2_ShapeAllowedIffNotFailed ==
    (last_op = "lookup" /\ ~out.raised) =>
        (ShapeOf(Levels(out.value)) \in policy.allowed_shapes
            <=> out.value.lookup_status # "failed")

\* the merged shape is allowed and shape_status maps it to "failed"
C2_Witness ==
    /\ last_op = "lookup"
    /\ ~out.raised
    /\ bundle.stages.shape \in policy.allowed_shapes
    /\ out.value.lookup_status = "failed"

RankedAscending(b) ==
    \A i \in DOMAIN Hierarchy(b) :
        /\ Hierarchy(b)[i].rank = i - 1
        /\ i < Len(Hierarchy(b)) => Hierarchy(b)[i].level <= Hierarchy(b)[i + 1].level

\* C3: admin_hierarchy is ordered by non-decreasing level and the node at
\* position i has rank i, before and after the overlays
C3_RankedAscending ==
    Called => /\ RankedAscending(base)
              /\ ~out.raised => RankedAscending(out.value)

\* a supplemented parent level was merged after the geometry levels
C3_Witness ==
    /\ last_op \in {"lookup", "core"}
    /\ bundle.stages.hierarchy # <<>>
    /\ ~out.raised
    /\ Len(Hierarchy(out.value)) >= 3
    /\ applied # <<>>

\* C4: the levels of admin_hierarchy are pairwise distinct, whatever the
\* providers return
C4_OneNodePerLevel ==
    Called =>
        \A i, j \in DOMAIN Hierarchy(base) :
            i # j => Hierarchy(base)[i].level # Hierarchy(base)[j].level

\* C5: apply_semantic_overlays raises, or returns a bundle with the status,
\* node count, osm_id sequence, level sequence and rank sequence of its input
C5_OverlaysPreserveStructure ==
    Called =>
        \/ out.raised
        \/ /\ out.value.lookup_status = base.lookup_status
           /\ Len(Hierarchy(out.value)) = Len(Hierarchy(base))
           /\ OsmIds(out.value) = OsmIds(base)
           /\ Levels(out.value) = Levels(base)
           /\ Ranks(out.value) = Ranks(base)

\* an overlay renamed a node of a bundle of at least two nodes
C5_Witness ==
    /\ last_op = "overlay"
    /\ ~out.raised
    /\ Len(Hierarchy(base)) >= 2
    /\ Hierarchy(out.value) # Hierarchy(base)

\* C6: a lookup whose point is in no feature of an allowed level returns
\* "failed" with an empty admin_hierarchy
C6_NoHitIsFailed ==
    (last_op = "lookup" /\ polygon_hits = <<>>) =>
        /\ ~out.raised
        /\ out.value.lookup_status = "failed"
        /\ Hierarchy(out.value) = <<>>

\* no hit, with both supplementation stages required and their maps loaded
C6_Witness ==
    /\ last_op = "lookup"
    /\ polygon_hits = <<>>
    /\ policy.hierarchy_required /\ hierarchy_parent_map # <<>>
    /\ policy.repair_required /\ repair_anchor_map # <<>>
    /\ out.value.lookup_status = "failed"

\* C7: the status is "failed" when the shape of the merged nodes is not in
\* allowed_shapes, else shape_status_map[shape] when present, else "partial"
C7_StatusIsFunctionOfShape ==
    last_op \in {"lookup", "core"} =>
        bundle.public.lookup_status =
            IF bundle.stages.shape \notin policy.allowed_shapes THEN "failed"
            ELSE IF DictHas(policy.shape_status_map, bundle.stages.shape)
            THEN DictGet(policy.shape_status_map, bundle.stages.shape)
            ELSE "partial"

\* an allowed shape without an entry in shape_status_map
C7_Witness ==
    /\ last_op = "lookup"
    /\ bundle.stages.shape \in policy.allowed_shapes
    /\ ~DictHas(policy.shape_status_map, bundle.stages.shape)
    /\ bundle.public.lookup_status = "partial"

----------------------------------------------------------------------------
(* Claims on the evidence layers of the pipeline specification *)

\* the levels of the nodes of a layer of evidence
LevelsOf(layer) == {layer[i].v.level : i \in DOMAIN layer}

\* C24: merging is first-seen-wins per level in the order geometry,
\* hierarchy, repair: a node of the output at a level with a geometry hit is
\* that geometry node (source "polygon"), and a node of the output at a level
\* filled by hierarchy supplementation is not a repair node, whatever the
\* providers return
C24_FirstSeenWinsPerLevel ==
    last_op \in {"lookup", "core"} =>
        \A i \in DOMAIN bundle.internal.nodes :
            LET node == bundle.internal.nodes[i]
            IN  /\ node.level \in LevelsOf(bundle.stages.geometry) =>
                       /\ node.evidence_type = "geometry"
                       /\ node.source = "polygon"
                /\ node.level \in LevelsOf(bundle.stages.hierarchy) =>
                       node.evidence_type # "semantic_anchor"

\* evidence holds a node at child level c whose name is a key of the map
NamedIn(evidence, c, map) ==
    /\ DictHas(evidence, c)
    /\ NodeGet(DictGet(evidence, c), "name", None) \notin {None, ""}
    /\ DictHas(map, NodeGet(DictGet(evidence, c), "name", None))

\* the least level of a non-empty set of levels
FirstLevel(S) == CHOOSE c \in S : \A d \in S : c <= d

\* the child levels of the hierarchy rule whose geometry hit has a name in
\* the parent map
HierarchyChildren ==
    {c \in policy.hierarchy_child_levels :
        NamedIn(bundle.stages.geometry, c, hierarchy_parent_map)}

\* the parent map entry of the first of those child levels
HierarchyEntry ==
    DictGet(hierarchy_parent_map,
            DictGet(bundle.stages.geometry, FirstLevel(HierarchyChildren)).name)

HierarchyApplies ==
    /\ policy.hierarchy_required
    /\ ~DictHas(bundle.stages.geometry, policy.hierarchy_parent_level)
    /\ HierarchyChildren # {}

\* C25: in lookup, hierarchy supplementation adds a node only when
\* hierarchy_required holds and parent_level has no geometry hit; it is then
\* the one node at parent_level (source "admin_tree_name") of the parent map
\* entry of the least child level whose geometry hit has a name in the map;
\* otherwise nothing is added
C25_HierarchySupplement ==
    last_op = "lookup" =>
        IF HierarchyApplies
        THEN /\ DictKeys(bundle.stages.hierarchy) = {policy.hierarchy_parent_level}
             /\ LET node == bundle.stages.hierarchy[1].v
                IN  /\ node.level = policy.hierarchy_parent_level
                    /\ node.source = "admin_tree_name"
                    /\ node.evidence_type = "hierarchy_repair"
                    /\ node.name = HierarchyEntry.name
                    /\ node.osm_id = HierarchyEntry.osm_id
        ELSE bundle.stages.hierarchy = <<>>

\* two child levels have a geometry hit with a name in the parent map, and
\* the two entries differ
C25_Witness ==
    /\ last_op = "lookup"
    /\ HierarchyApplies
    /\ \E c, d \in HierarchyChildren :
           /\ c < d
           /\ DictGet(hierarchy_parent_map, DictGet(bundle.stages.geometry, c).name).osm_id
                  # DictGet(hierarchy_parent_map, DictGet(bundle.stages.geometry, d).name).osm_id

\* the child levels of the repair rule whose geometry hit has a name in the
\* repair anchor map
RepairChildren ==
    {c \in policy.repair_child_levels :
        NamedIn(bundle.stages.geometry, c, repair_anchor_map)}

\* the anchor of the first of those child levels: <<name, id>>
RepairAnchor ==
    DictGet(repair_anchor_map,
            DictGet(bundle.stages.geometry, FirstLevel(RepairChildren)).name)

RepairApplies ==
    /\ policy.repair_required
    /\ ~DictHas(bundle.stages.geometry, policy.repair_parent_level)
    /\ ~DictHas(bundle.stages.hierarchy, policy.repair_parent_level)
    /\ RepairChildren # {}

\* C26: in lookup, repair supplementation adds a node only when
\* repair_required holds and parent_level is missing; it is then the one
\* node at parent_level (source "semantic_anchor") of the anchor of the least
\* child level whose geometry hit has a name in the repair anchor map: the
\* child that is looked up is a geometry hit
C26_RepairSupplement ==
    last_op = "lookup" =>
        IF RepairApplies
        THEN /\ DictKeys(bundle.stages.repair) = {policy.repair_parent_level}
             /\ LET node == bundle.stages.repair[1].v
                IN  /\ node.level = policy.repair_parent_level
                    /\ node.source = "semantic_anchor"
                    /\ node.evidence_type = "semantic_anchor"
                    /\ node.name = RepairAnchor[1]
                    /\ node.osm_id = RepairAnchor[2]
        ELSE bundle.stages.repair = <<>>

----------------------------------------------------------------------------
(* query_point_nearest.  World coordinates are whole degrees on the grid   *)
(* of 15 degrees (grid cell g stands for 15 * g degrees); distances are in *)
(* metres, max_distance_km in kilometres.                                  *)

\* float("inf")
Infinity == 2147483647

\* _haversine_km on the grid, in metres (rounded): HaversineTable[a+1][b+1][d+1]
\* is the distance between latitudes 15a and 15b at a longitude difference 15d
HaversineTable ==
    << <<<<0, 1667924, 3335848, 5003772, 6671696, 8339619>>,
         <<1667924, 2345166, 3694556, 5217320, 6796335, 8397717>>,
         <<3335848, 3694556, 4604540, 5808685, 7154403, 8567287>>,
         <<5003772, 5217320, 5808685, 6671696, 7705273, 8834961>>,
         <<6671696, 6796335, 7154403, 7705273, 8397717, 9180757>>,
         <<8339619, 8397717, 8567287, 8834961, 9180757, 9580447>>>>,
       <<<<1667924, 2345166, 3694556, 5217320, 6796335, 8397717>>,
         <<0, 1610781, 3219652, 4824448, 6422417, 8009707>>,
         <<1667924, 2265812, 3487813, 4878105, 6315077, 7757212>>,
         <<3335848, 3621407, 4363128, 5364353, 6489795, 7662747>>,
         <<5003772, 5150371, 5562953, 6177161, 6921806, 7735280>>,
         <<6671696, 6734187, 6915462, 7198407, 7558552, 7967896>>>>,
       <<<<3335848, 3694556, 4604540, 5808685, 7154403, 8567287>>,
         <<1667924, 2265812, 3487813, 4878105, 6315077, 7757212>>,
         <<0, 1443428, 2880513, 4304266, 5706280, 7075702>>,
         <<1667924, 2121664, 3100734, 4240335, 5417415, 6582709>>,
         <<3335848, 3519301, 4013890, 4707635, 5503554, 6334725>>,
         <<5003772, 5072219, 5268898, 5570808, 5947248, 6365901>>>>,
       <<<<5003772, 5217320, 5808685, 6671696, 7705273, 8834961>>,
         <<3335848, 3621407, 4363128, 5364353, 6489795, 7662747>>,
         <<1667924, 2121664, 3100734, 4240335, 5417415, 6582709>>,
         <<0, 1177711, 2345166, 3491489, 4604540, 5670211>>,
         <<1667924, 1942479, 2589033, 3382103, 4213613, 5032790>>,
         <<3335848, 3414469, 3636126, 3965960, 4363128, 4790472>>>>,
       <<<<6671696, 6796335, 7154403, 7705273, 8397717, 9180757>>,
         <<5003772, 5150371, 5562953, 6177161, 6921806, 7735280>>,
         <<3335848, 3519301, 4013890, 4707635, 5503554, 6334725>>,
         <<1667924, 1942479, 2589033, 3382103, 4213613, 5032790>>,
         <<0, 832174, 1653574, 2453204, 3219652, 3940951>>,
         <<1667924, 1773224, 2051787, 2431983, 2855593, 3284721>>>>,
       <<<<8339619, 8397717, 8567287, 8834961, 9180757, 9580447>>,
         <<6671696, 6734187, 6915462, 7198407, 7558552, 7967896>>,
         <<5003772, 5072219, 5268898, 5570808, 5947248, 6365901>>,
         <<3335848, 3414469, 3636126, 3965960, 4363128, 4790472>>,
         <<1667924, 1773224, 2051787, 2431983, 2855593, 3284721>>,
         <<0, 430541, 854192, 1264114, 1653574, 2016018>>>> >>

Abs(x) == IF x < 0 THEN -x ELSE x

\* _haversine_km(lat1, lon1, lat2, lon2), arguments in degrees
HaversineM(lat1, lon1, lat2, lon2) ==
    HaversineTable[(lat1 \div 15) + 1][(lat2 \div 15) + 1][(Abs(lon2 - lon1) \div 15) + 1]

\* _nearest_point_on_segment: projection with t clamped to [0, 1]
NearestPointOnSegment(px, py, x1, y1, x2, y2) ==
    LET dx == x2 - x1
        dy == y2 - y1
        num == (px - x1) * dx + (py - y1) * dy
        den == dx * dx + dy * dy
    IN  IF dx = 0 /\ dy = 0 THEN <<x1, y1>>
        ELSE IF num <= 0 THEN <<x1, y1>>
        ELSE IF num >= den THEN <<x2, y2>>
        ELSE <<x1 + (num * dx) \div den, y1 + (num * dy) \div den>>

\* _decode_ring_points: x = minx + (qx / 65535.0) * spanx
DecodeRingPoints(ring, minx, miny, spanx, spany) ==
    LET sx == IF spanx = 0 THEN 1 ELSE spanx
        sy == IF spany = 0 THEN 1 ELSE spany
    IN  [i \in DOMAIN ring |-> <<minx + (ring[i][1] * sx) \div QMax,
                                 miny + (ring[i][2] * sy) \div QMax>>]

RECURSIVE RingDistanceLoop(_, _, _, _, _)
\* the loop of _distance_km_to_ring over the edges i .. limit - 1 (0-based)
RingDistanceLoop(p, ring_points, i, limit, min_dist) ==
    IF i >= limit THEN min_dist
    ELSE LET count == Len(ring_points)
             a == ring_points[i + 1]
             b == ring_points[((i + 1) % count) + 1]
             n == NearestPointOnSegment(p[1], p[2], a[1], a[2], b[1], b[2])
             dist == HaversineM(p[2], p[1], n[2], n[1])
         IN  RingDistanceLoop(p, ring_points, i + 1, limit,
                              IF dist < min_dist THEN dist ELSE min_dist)

\* _distance_km_to_ring
DistanceToRing(p, ring_points) ==
    IF Len(ring_points) < 2 THEN Infinity
    ELSE LET count == Len(ring_points)
             closed == ring_points[1] = ring_points[count]
         IN  RingDistanceLoop(p, ring_points, 0, IF closed THEN count - 1 ELSE count,
                              Infinity)

RECURSIVE PartDistanceLoop(_, _, _, _)
\* the loop of _distance_km_to_part over the non-empty rings
PartDistanceLoop(p, part, i, min_dist) ==
    IF i > Len(part.rings) THEN min_dist
    ELSE LET ring_points ==
                 DecodeRingPoints(part.rings[i], part.bbox[1], part.bbox[2],
                                  part.bbox[3] - part.bbox[1], part.bbox[4] - part.bbox[2])
             dist == DistanceToRing(p, ring_points)
         IN  PartDistanceLoop(p, part, i + 1,
                              IF ring_points # <<>> /\ dist < min_dist THEN dist
                              ELSE min_dist)

\* _distance_km_to_part
DistanceToPart(p, part) ==
    IF part.rings = <<>> THEN Infinity ELSE PartDistanceLoop(p, part, 1, Infinity)

RECURSIVE FlattenParts(_, _)
\* part_bboxes / part_feature_index: the parts of the index in part order, each
\* with the index of its feature
FlattenParts(idx, i) ==
    IF i > Len(idx) THEN <<>>
    ELSE [j \in DOMAIN idx[i].parts |-> [feature_idx |-> i, part |-> idx[i].parts[j]]]
         \o FlattenParts(idx, i + 1)

NotWindowed(p, bbox, km) == TRUE

\* the part's bbox intersects the window of max_km / 111.0 degrees around pt
InWindow(p, bbox, km) ==
    ~ \/ 111 * bbox[3] < 111 * p[1] - km
      \/ 111 * bbox[1] > 111 * p[1] + km
      \/ 111 * bbox[4] < 111 * p[2] - km
      \/ 111 * bbox[2] > 111 * p[2] + km

RECURSIVE NearestLoop(_, _, _, _, _, _)
\* the loop of query_point_nearest over the parts
NearestLoop(idx, parts, p, km, level_set, nearest_by_level) ==
    IF parts = <<>> THEN nearest_by_level
    ELSE LET part == Head(parts).part
             feature == idx[Head(parts).feature_idx]
             dist == DistanceToPart(p, part)
         IN  IF ~InWindow(p, part.bbox, km) \/ feature.level \notin level_set
                \/ dist > 1000 * km
             THEN NearestLoop(idx, Tail(parts), p, km, level_set, nearest_by_level)
             ELSE IF ~DictHas(nearest_by_level, feature.level)
                     \/ dist < DictGet(nearest_by_level, feature.level).dist
             THEN NearestLoop(idx, Tail(parts), p, km, level_set,
                              DictSet(nearest_by_level, feature.level,
                                      [dist |-> dist, meta |-> feature]))
             ELSE NearestLoop(idx, Tail(parts), p, km, level_set, nearest_by_level)

\* the hit of a level of nearest_by_level
NearbyHit(feature) ==
    [level |-> feature.level, name |-> feature.name, osm_id |-> feature.feature_id,
     source |-> "nearby", ref |-> ""]

\* FFSFSpatialIndexV3.query_point_nearest(pt, max_distance_km, levels)
QueryPointNearest(idx, p, km, lvls) ==
    IF km <= 0 THEN <<>>
    ELSE LET nearest == NearestLoop(idx, FlattenParts(idx, 1), p, km, SeqToSet(lvls), <<>>)
         IN  [i \in DOMAIN nearest |-> [k |-> nearest[i].k, v |-> NearbyHit(nearest[i].v.meta)]]

----------------------------------------------------------------------------
(* Nearest specification: query_point_nearest on indexes of MaxFeatures    *)
(* features whose parts are rectangles of the 15-degree grid               *)

\* a part whose outer ring is its bbox (quantized corners 0 and 65535)
NearRect(minx, miny, maxx, maxy) ==
    [bbox |-> <<minx, miny, maxx, maxy>>,
     rings |-> << <<<<0, 0>>, <<QMax, 0>>, <<QMax, QMax>>, <<0, QMax>>>> >>]

\* a part of 45 x 45 degrees with a hole of 15 x 15 degrees in its middle
NearRectWithHole ==
    [bbox |-> <<0, 0, 45, 45>>,
     rings |-> << <<<<0, 0>>, <<QMax, 0>>, <<QMax, QMax>>, <<0, QMax>>>>,
                  <<<<21845, 21845>>, <<43690, 21845>>, <<43690, 43690>>, <<21845, 43690>>,
                    <<21845, 21845>>>> >>]

\* a part without rings (ring_count = 0)
NearEmptyPart == [bbox |-> <<0, 0, 60, 60>>, rings |-> <<>>]

NearPartLists ==
    { <<NearRect(15, 60, 30, 75)>>,
      <<NearRect(45, 0, 60, 15)>>,
      <<NearEmptyPart, NearRect(0, 45, 15, 60), NearRect(60, 45, 75, 60)>>,
      <<NearRectWithHole>> }

NearIndexes ==
    { idx \in [1 .. MaxFeatures -> [level : {6, 8}, parts : NearPartLists]] : TRUE }

NearFeature(idx, i) ==
    [level |-> idx[i].level, name |-> FeatureNames[i], feature_id |-> FeatureIds[i],
     parts |-> idx[i].parts]

MaxKms == {0 - 5, 0, 1000, 1700, 3500}

NearLevelLists == {<<6, 8>>, <<8>>}

InitNear ==
    /\ phase = "index"
    /\ raw_policy = <<>>
    /\ policy = NoPolicy
    /\ \E idx \in NearIndexes : index = [i \in 1 .. MaxFeatures |-> NearFeature(idx, i)]
    /\ hierarchy_parent_map = <<>>
    /\ repair_anchor_map = <<>>
    /\ semantic_overlays = <<>>
    /\ CallIdle
    /\ NearIdle
    /\ BootIdle
    /\ ConcIdle

\* index.query_point_nearest(pt, max_distance_km, levels), pt on the grid
QueryPointNearestCall(p, km, lvls) ==
    /\ last_op = "none"
    /\ last_op' = "nearest"
    /\ pt' = <<15 * p[1], 15 * p[2]>>
    /\ max_km' = km
    /\ levels' = lvls
    /\ polygon_hits' = QueryPointNearest(index, pt', km, lvls)
    /\ UNCHANGED <<bundle, base, applied, out, runtimeVars, concVars, bootVars>>

NearestStep == \E p \in Points, km \in MaxKms, lvls \in NearLevelLists :
                   QueryPointNearestCall(p, km, lvls)

\* the caller has consumed the hits
NearestReturn ==
    /\ last_op = "nearest"
    /\ last_op' = "none"
    /\ pt' = <<0, 0>>
    /\ max_km' = 0
    /\ levels' = <<>>
    /\ polygon_hits' = <<>>
    /\ UNCHANGED <<bundle, base, applied, out, runtimeVars, concVars, bootVars>>

NextNear == NearestStep \/ NearestReturn

SpecNear == InitNear /\ [][NextNear]_vars

\* the parts of the features of level L at no more than km kilometres of p
PartsWithin(idx, p, km, L) ==
    {i \in DOMAIN FlattenParts(idx, 1) :
        /\ idx[FlattenParts(idx, 1)[i].feature_idx].level = L
        /\ DistanceToPart(p, FlattenParts(idx, 1)[i].part) <= 1000 * km}

\* the bbox of the part meets the square of km / 111 degrees around p
MeetsWindow(p, bbox, km) ==
    /\ 111 * bbox[3] >= 111 * p[1] - km
    /\ 111 * bbox[1] <= 111 * p[1] + km
    /\ 111 * bbox[4] >= 111 * p[2] - km
    /\ 111 * bbox[2] <= 111 * p[2] + km

PartsInWindow(idx, p, km, L) ==
    {i \in PartsWithin(idx, p, km, L) : MeetsWindow(p, FlattenParts(idx, 1)[i].part.bbox, km)}

\* the first part, in part order, of minimum distance among the parts S
NearestOf(idx, p, S) ==
    CHOOSE i \in S :
        \A j \in S :
            \/ DistanceToPart(p, FlattenParts(idx, 1)[i].part)
                   < DistanceToPart(p, FlattenParts(idx, 1)[j].part)
            \/ /\ DistanceToPart(p, FlattenParts(idx, 1)[i].part)
                      = DistanceToPart(p, FlattenParts(idx, 1)[j].part)
               /\ i <= j

\* the hits are those of the nearest part of each requested level among Cand(L)
NearestHitsAre(Cand(_)) ==
    /\ max_km <= 0 => polygon_hits = <<>>
    /\ max_km > 0 =>
          \A L \in {6, 8} :
              /\ DictHas(polygon_hits, L) <=> (L \in SeqToSet(levels) /\ Cand(L) # {})
              /\ DictHas(polygon_hits, L) =>
                     DictGet(polygon_hits, L) =
                         NearbyHit(index[FlattenParts(index, 1)[NearestOf(index, pt, Cand(L))].feature_idx])

WithinOf(L) == PartsWithin(index, pt, max_km, L)

InWindowOf(L) == PartsInWindow(index, pt, max_km, L)

----------------------------------------------------------------------------
(* Dataset bootstrap.  Version strings are sequences of characters, so     *)
(* that parsing and ordering are computed as the code computes them.       *)

Digits == <<"0", "1", "2", "3", "4", "5", "6", "7", "8", "9">>

IsDigit(c) == \E i \in DOMAIN Digits : Digits[i] = c

DigitValue(c) == (CHOOSE i \in DOMAIN Digits : Digits[i] = c) - 1

RECURSIVE SplitDots(_, _, _)
\* value.split("."): the parts of the string between the dots
SplitDots(str, cur, acc) ==
    IF str = <<>> THEN Append(acc, cur)
    ELSE IF Head(str) = "." THEN SplitDots(Tail(str), <<>>, Append(acc, cur))
    ELSE SplitDots(Tail(str), Append(cur, Head(str)), acc)

\* p.isdigit(): not empty and digits only
IsDigits(part) == part # <<>> /\ \A i \in DOMAIN part : IsDigit(part[i])

RECURSIVE ToInt(_, _)
\* int(p) of a string of digits
ToInt(part, acc) ==
    IF part = <<>> THEN acc ELSE ToInt(Tail(part), 10 * acc + DigitValue(Head(part)))

\* parse_version_for_sort: the tuple of integers of a version string with an
\* optional leading "v", or the empty tuple
parse_version_for_sort(raw) ==
    LET value == IF raw # <<>> /\ Head(raw) = "v" THEN Tail(raw) ELSE raw
        parts == SplitDots(value, <<>>, <<>>)
    IN  IF \E i \in DOMAIN parts : ~IsDigits(parts[i]) THEN <<>>
        ELSE [i \in DOMAIN parts |-> ToInt(parts[i], 0)]

\* parse_semver: the same parse, raising ValueError where it has no digits
parse_semver(raw) ==
    [raised |-> parse_version_for_sort(raw) = <<>>, value |-> parse_version_for_sort(raw)]

RECURSIVE TupleLess(_, _)
\* a < b on tuples of integers (lexicographic, a proper prefix is smaller)
TupleLess(a, b) ==
    IF b = <<>> THEN FALSE
    ELSE IF a = <<>> THEN TRUE
    ELSE IF Head(a) # Head(b) THEN Head(a) < Head(b)
    ELSE TupleLess(Tail(a), Tail(b))

CompatAnyRange(manifest, runtime_version) ==
    [raised |-> FALSE, min |-> manifest.runtime_compat.min,
     max_exclusive |-> manifest.runtime_compat.max_exclusive]

\* validate_manifest_runtime_compatibility: raised, or the bounds of the range
validate_manifest_runtime_compatibility(manifest, runtime_version) ==
    LET compat == manifest.runtime_compat
        runtime_v == parse_semver(runtime_version)
        min_v == parse_semver(compat.min)
        max_v == parse_semver(compat.max_exclusive)
        raised ==
            \/ compat.min = <<>>
            \/ compat.max_exclusive = <<>>
            \/ runtime_v.raised \/ min_v.raised \/ max_v.raised
            \/ ~TupleLess(min_v.value, max_v.value)
            \/ TupleLess(runtime_v.value, min_v.value)
            \/ ~TupleLess(runtime_v.value, max_v.value)
    IN  [raised |-> raised, min |-> compat.min, max_exclusive |-> compat.max_exclusive]

(* The cache: cache_root/JP/<dataset_id>/<version>/<file>.  fs maps     *)
(* <<dataset_id, version>> to a directory [exists, files], files maps a *)
(* file name to its content, a record with a field kind.                *)

Absent == [kind |-> "absent"]

MANIFEST_NAME == "dataset_release_manifest.json"

RUNTIME_POLICY_FILE == "runtime_policy.json"

\* DEFAULT_REQUIRED_FILES
DEFAULT_REQUIRED_FILES ==
    <<MANIFEST_NAME, "geometry.ffsf", "geometry_meta.json", RUNTIME_POLICY_FILE>>

FileNames == SeqToSet(DEFAULT_REQUIRED_FILES) \cup {"hierarchy.json"}

NoDir == [exists |-> FALSE, files |-> [f \in FileNames |-> Absent]]

\* required_files_present: the required files that the directory lacks
required_files_present(dir) ==
    SelectSeq(DEFAULT_REQUIRED_FILES, LAMBDA name : dir.files[name].kind = "absent")

\* load_runtime_policy(dataset_dir) raises: runtime_policy.json is no policy
\* that load_runtime_policy accepts
PolicyRaises(dir) ==
    \/ dir.files[RUNTIME_POLICY_FILE].kind # "policy"
    \/ ~load_runtime_policy(dir.files[RUNTIME_POLICY_FILE].raw).valid

\* validate_cached_dataset_dir: False ("invalid"), True ("valid"), or the
\* exception of validate_dataset_dir ("raised")
validate_cached_dataset_dir(dir) ==
    IF required_files_present(dir) # <<>> THEN "invalid"
    ELSE IF PolicyRaises(dir) THEN "raised"
    ELSE "valid"

\* the order of the characters of the names of version directories
CharOrder == <<".", "0", "1", "2", "3", "4", "5", "6", "7", "8", "9",
               "a", "e", "l", "s", "t", "v">>

CharRank(c) == CHOOSE i \in DOMAIN CharOrder : CharOrder[i] = c

\* a < b on strings
RECURSIVE StrLess(_, _)
StrLess(a, b) ==
    IF b = <<>> THEN FALSE
    ELSE IF a = <<>> THEN TRUE
    ELSE IF Head(a) # Head(b) THEN CharRank(Head(a)) < CharRank(Head(b))
    ELSE StrLess(Tail(a), Tail(b))

\* (parsed, name) < (parsed, name) of two candidates
CandidateLess(a, b) ==
    \/ TupleLess(parse_version_for_sort(a), parse_version_for_sort(b))
    \/ /\ parse_version_for_sort(a) = parse_version_for_sort(b)
       /\ StrLess(a, b)

RECURSIVE FindLoop(_, _, _)
\* the loop of find_local_cached_dataset over candidates.sort(reverse=True)
FindLoop(tree, dataset_id, candidates) ==
    IF candidates = {} THEN [kind |-> "none", version |-> <<>>]
    ELSE LET version == CHOOSE a \in candidates :
                            \A b \in candidates \ {a} : CandidateLess(b, a)
             verdict == validate_cached_dataset_dir(tree[<<dataset_id, version>>])
         IN  IF verdict = "raised" THEN [kind |-> "raised", version |-> version]
             ELSE IF verdict = "valid" THEN [kind |-> "found", version |-> version]
             ELSE FindLoop(tree, dataset_id, candidates \ {version})

\* find_local_cached_dataset: the directories of versions_root whose name
\* parses as a version, highest first
find_local_cached_dataset(tree, dataset_id) ==
    FindLoop(tree, dataset_id,
             {k[2] : k \in {k \in DOMAIN tree : /\ k[1] = dataset_id
                                                /\ tree[k].exists
                                                /\ parse_version_for_sort(k[2]) # <<>>}})

(* The release server: what the URLs of the dataset repository answer.  *)

V_1_2_0 == <<"1", ".", "2", ".", "0">>

V_1_10_0 == <<"1", ".", "1", "0", ".", "0">>

V_latest == <<"l", "a", "t", "e", "s", "t">>

Versions == {V_1_2_0, V_1_10_0}

\* cadis_runtime.version.__version__, the version of the running runtime
CADIS_VERSION == <<"2", ".", "9", ".", "0">>

MANIFEST_PROFILE == "cadis.dataset.release"

\* hashlib.sha256 of a content: distinct contents have distinct digests
sha256_file(content) == [sha256 |-> content]

\* out.stat().st_size
st_size(content) ==
    CASE content.kind = "blob" -> (IF content.data = "short" THEN 1 ELSE 4)
      [] content.kind = "policy" -> 2
      [] content.kind = "manifest" -> 3
      [] OTHER -> 0

Blob(data) == [kind |-> "blob", data |-> data]

PolicyFile(raw) == [kind |-> "policy", raw |-> raw]

GoodRawPolicy ==
    CHOOSE r \in RawPolicies : /\ load_runtime_policy(r).valid
                               /\ r.layers.hierarchy_required
                               /\ ~r.layers.repair_required

BadRawPolicy == CHOOSE r \in RawPolicies : ~load_runtime_policy(r).valid

\* the files of a well-formed dataset, without dataset_release_manifest.json
GoodFiles ==
    <<[rel |-> "geometry.ffsf", content |-> Blob("geometry")],
      [rel |-> "geometry_meta.json", content |-> Blob("meta")],
      [rel |-> RUNTIME_POLICY_FILE, content |-> PolicyFile(GoodRawPolicy)],
      [rel |-> "hierarchy.json", content |-> Blob("hierarchy")]>>

\* one entry of checksums.files
FileEntry(f) == [rel |-> f.rel, sha256 |-> sha256_file(f.content), size |-> st_size(f.content)]

MapSeq(Op(_), s) == [i \in DOMAIN s |-> Op(s[i])]

\* bundle_checksum_from_files: a digest of the (rel, sha256) pairs, by rel
bundle_checksum_from_files(verified) ==
    [bundle |-> {<<verified[i].rel, verified[i].sha256>> : i \in DOMAIN verified}]

NoBundleChecksum == [bundle |-> {}]

Compat(min, max_exclusive) == [min |-> min, max_exclusive |-> max_exclusive]

\* dataset_release_manifest.json of a well-formed release of a version
GoodManifest(version) ==
    [kind |-> "manifest",
     profile |-> MANIFEST_PROFILE,
     schema_version |-> 2,
     country_iso |-> "JP",
     dataset_id |-> "jp.admin",
     dataset_version |-> version,
     checksum_algo |-> "sha256",
     runtime_compat |-> Compat(<<"2", ".", "0", ".", "0">>, <<"3", ".", "0", ".", "0">>),
     files |-> MapSeq(FileEntry, GoodFiles),
     bundle_checksum |-> bundle_checksum_from_files(MapSeq(FileEntry, GoodFiles))]

\* dataset_package.tar.gz: its members in archive order
Package(manifest, files) ==
    <<[rel |-> MANIFEST_NAME, content |-> manifest]>> \o files

\* what releases/JP/jp.admin/<version>/ serves: the release manifest, the
\* package with its .sha256 file, and the files of the dataset
Release(manifest, members, sha_of, files) ==
    [manifest |-> manifest, package |-> members,
     package_sha |-> sha256_file([kind |-> "package", members |-> sha_of]),
     files |-> files]

GoodRelease(version) ==
    Release(GoodManifest(version), Package(GoodManifest(version), GoodFiles),
            Package(GoodManifest(version), GoodFiles), GoodFiles)

OtherVersion(version) == IF version = V_1_2_0 THEN V_1_10_0 ELSE V_1_2_0

WithManifest(release, manifest) == [release EXCEPT !.manifest = manifest]

\* the runtime_compat objects that release manifests carry
Compats ==
    {Compat(<<"2", ".", "1", "0", ".", "0">>, <<"3", ".", "0", ".", "0">>),
     Compat(<<"2", ".", "0", ".", "0">>, <<"2", ".", "1", "0", ".", "0">>),
     Compat(<<"2", ".", "0", ".", "0">>, <<"2", ".", "9", ".", "0">>),
     Compat(<<"v", "2", ".", "9">>, <<"2", ".", "9", ".", "0">>),
     Compat(<<"3", ".", "0", ".", "0">>, <<"2", ".", "0", ".", "0">>),
     Compat(<<"2", ".", "x">>, <<"3", ".", "0", ".", "0">>),
     Compat(<<>>, <<"3", ".", "0", ".", "0">>)}

\* releases that differ from the well-formed one in their manifest
ManifestVariants(version) ==
    LET good == GoodRelease(version)
        m == good.manifest
    IN  {WithManifest(good, [m EXCEPT !.dataset_id = "jp.other"]),
         WithManifest(good, [m EXCEPT !.dataset_id = ""]),
         WithManifest(good, [m EXCEPT !.country_iso = "US"]),
         WithManifest(good, [m EXCEPT !.dataset_version = OtherVersion(version)]),
         WithManifest(good, [m EXCEPT !.profile = "other"]),
         WithManifest(good, [m EXCEPT !.checksum_algo = "md5"]),
         WithManifest(good, [m EXCEPT !.bundle_checksum = NoBundleChecksum]),
         WithManifest(good, [m EXCEPT !.bundle_checksum = bundle_checksum_from_files(SubSeq(m.files, 1, 1))]),
         WithManifest(good, [m EXCEPT !.files[2].size = 1]),
         WithManifest(good, [m EXCEPT !.files = <<FileEntry([rel |-> MANIFEST_NAME, content |-> m])>> \o @]),
         WithManifest(good, [m EXCEPT !.files = SubSeq(@, 1, 2)]),
         WithManifest(good, [m EXCEPT !.files = SubSeq(@, 1, 3)]),
         WithManifest(good, Absent)}
    \cup {WithManifest(good, [m EXCEPT !.runtime_compat = c]) : c \in Compats}

\* releases that differ from the well-formed one in what they serve
ContentVariants(version) ==
    LET good == GoodRelease(version)
        m == good.manifest
        bad_policy == [GoodFiles EXCEPT ![3].content = PolicyFile(BadRawPolicy)]
        corrupt == [GoodFiles EXCEPT ![2].content = Blob("corrupt")]
    IN  {Release(m, good.package, Package(m, corrupt), GoodFiles),
         Release(m, Package(m, SubSeq(GoodFiles, 1, 2)), Package(m, SubSeq(GoodFiles, 1, 2)), GoodFiles),
         Release(m, Package(m, bad_policy), Package(m, bad_policy), bad_policy),
         Release(m, Package([m EXCEPT !.dataset_version = OtherVersion(version)], GoodFiles),
                 Package([m EXCEPT !.dataset_version = OtherVersion(version)], GoodFiles), GoodFiles),
         Release(m, good.package, good.package, corrupt)}

Releases(version) ==
    {GoodRelease(version)} \cup ManifestVariants(version) \cup ContentVariants(version)

\* the dataset repository: dataset_manifest.json routes JP / jp.admin to
\* latest; releases/JP/jp.admin/<version>/ is release[version]
Server(latest, r) ==
    [latest |-> latest, release |-> [v \in Versions |-> IF v = latest THEN r ELSE GoodRelease(v)]]

Servers == UNION {{Server(latest, r) : r \in Releases(latest)} : latest \in Versions}

(* The calls.  boot[c] is the call of caller c: its position pc, its    *)
(* arguments, the release it resolved, the directory it writes, what is *)
(* left to write, the URLs it has read, and what it returned.           *)

DatasetIds == {"jp.admin", "jp.other"}

DirKeys == DatasetIds \X (Versions \cup {V_latest})

NoKey == <<"", <<>>>>

\* a directory that holds the given files
Dir(files) ==
    [exists |-> TRUE,
     files |-> [f \in FileNames |->
                   IF \E i \in DOMAIN files : files[i].rel = f
                   THEN files[CHOOSE i \in DOMAIN files : files[i].rel = f].content
                   ELSE Absent]]

\* what a version directory of the cache may hold before the first call
CachedDirs(version) ==
    LET m == GoodManifest(version)
    IN  {NoDir,
         Dir(Package(m, GoodFiles)),
         Dir(Package(m, [GoodFiles EXCEPT ![3].content = PolicyFile(BadRawPolicy)])),
         Dir(Package(m, Tail(GoodFiles))),
         Dir(Package([m EXCEPT !.dataset_version = OtherVersion(version)], GoodFiles))}

Caches ==
    {[k \in DirKeys |->
         IF k[1] # "jp.admin" THEN NoDir
         ELSE IF k[2] = V_1_2_0 THEN a
         ELSE IF k[2] = V_1_10_0 THEN b
         ELSE Dir(Package(GoodManifest(V_latest), GoodFiles))] :
        a \in CachedDirs(V_1_2_0), b \in CachedDirs(V_1_10_0)}

\* target_dir.mkdir(parents=True, exist_ok=True)
Mkdir(tree, key) == [tree EXCEPT ![key].exists = TRUE]

\* (target_dir / rel).write_bytes(content)
WriteFile(tree, key, rel, content) == [tree EXCEPT ![key].files[rel] = content]

NoRelease == [dataset_id |-> "", dataset_version |-> <<>>, at |-> <<>>]

NoResult ==
    [kind |-> "none", error |-> "", dataset_id |-> "", dataset_version |-> <<>>,
     dataset_dir |-> NoKey, used_cached_dataset |-> FALSE, update_checked |-> FALSE]

\* the dict that bootstrap_country_dataset returns (country_iso2 is "JP")
Result(dataset_id, version, dir, used, checked) ==
    [kind |-> "result", error |-> "", dataset_id |-> dataset_id, dataset_version |-> version,
     dataset_dir |-> dir, used_cached_dataset |-> used, update_checked |-> checked]

Raised(error) == [NoResult EXCEPT !.kind = "raised", !.error = error]

IdleCall ==
    [pc |-> "idle", mode |-> "none", pinned |-> <<>>, update |-> FALSE, at |-> <<>>,
     manifest |-> Absent, release |-> NoRelease, target |-> NoKey, left |-> <<>>,
     verified |-> <<>>, net |-> <<>>, result |-> NoResult]

Callers == {"c1", "c2"}

\* the call of c returns r
Done(call, r) == [call EXCEPT !.pc = "done", !.result = r]

\* the checks of resolve_latest_release and resolve_pinned_release on the
\* fetched release manifest: "" or the exception
ResolveChecks(m, version) ==
    IF m.kind # "manifest" THEN "HTTPError"
    ELSE IF m.country_iso # "JP" THEN "ValueError"
    ELSE IF m.dataset_id = "" THEN "ValueError"
    ELSE IF m.dataset_version = <<>> THEN "ValueError"
    ELSE IF m.dataset_version # version THEN "ValueError"
    ELSE IF validate_manifest_runtime_compatibility(m, CADIS_VERSION).raised THEN "ValueError"
    ELSE ""

\* bootstrap_country_dataset up to its first request: the cache
BootstrapCountryDataset(c, pinned, update) ==
    /\ boot[c].pc = "idle"
    /\ LET call == [boot[c] EXCEPT !.mode = "index", !.pinned = pinned, !.update = update]
           verdict == IF pinned = <<>> THEN "none"
                      ELSE IF ~fs[<<"jp.admin", pinned>>].exists THEN "invalid"
                      ELSE validate_cached_dataset_dir(fs[<<"jp.admin", pinned>>])
           cached == find_local_cached_dataset(fs, "jp.admin")
       IN  boot' = [boot EXCEPT ![c] =
               IF pinned # <<>>
               THEN IF verdict = "valid"
                    THEN Done(call, Result("jp.admin", pinned, <<"jp.admin", pinned>>, TRUE, FALSE))
                    ELSE IF verdict = "raised"
                    THEN Done(call, Raised("RuntimePolicyInvalidError"))
                    ELSE [call EXCEPT !.pc = "resolve"]
               ELSE IF cached.kind = "raised"
                    THEN Done(call, Raised("RuntimePolicyInvalidError"))
                    ELSE IF cached.kind = "found" /\ ~update
                    THEN Done(call, Result("jp.admin", cached.version,
                                           <<"jp.admin", cached.version>>, TRUE, FALSE))
                    ELSE [call EXCEPT !.pc = "resolve"]]
    /\ UNCHANGED <<fs, server, runtimeVars, callVars, concVars, nearVars>>

\* resolve_pinned_release, or resolve_latest_release and the look at
\* latest_target
Resolve(c) ==
    /\ boot[c].pc = "resolve"
    /\ LET pinned == boot[c].pinned
           at == IF pinned # <<>> THEN pinned ELSE server.latest
           m == server.release[at].manifest
           error == ResolveChecks(m, at)
           call == [boot[c] EXCEPT !.at = at, !.manifest = m,
                       !.net = @ \o (IF pinned # <<>> THEN <<"release_manifest">>
                                     ELSE <<"dataset_manifest", "release_manifest">>)]
           release == [dataset_id |-> m.dataset_id, dataset_version |-> m.dataset_version, at |-> at]
           target == <<m.dataset_id, m.dataset_version>>
           verdict == IF pinned # <<>> \/ ~fs[target].exists THEN "invalid"
                      ELSE validate_cached_dataset_dir(fs[target])
       IN  boot' = [boot EXCEPT ![c] =
               IF error # "" THEN Done(call, Raised(error))
               ELSE IF verdict = "valid"
               THEN Done([call EXCEPT !.release = release],
                         Result(m.dataset_id, m.dataset_version, target, TRUE, TRUE))
               ELSE IF verdict = "raised"
               THEN Done([call EXCEPT !.release = release], Raised("RuntimePolicyInvalidError"))
               ELSE [call EXCEPT !.pc = "download", !.release = release, !.target = target]]
    /\ UNCHANGED <<fs, server, runtimeVars, callVars, concVars, nearVars>>

\* download_and_extract_release up to safe_extract_tar_gz: the directory,
\* the archive and its checksum
Download(c) ==
    /\ boot[c].pc = "download"
    /\ LET release == server.release[boot[c].release.at]
           call == [boot[c] EXCEPT !.net = @ \o <<"package", "package_sha">>]
           actual_sha == sha256_file([kind |-> "package", members |-> release.package])
       IN  /\ fs' = Mkdir(fs, boot[c].target)
           /\ boot' = [boot EXCEPT ![c] =
                  IF actual_sha # release.package_sha THEN Done(call, Raised("ValueError"))
                  ELSE [call EXCEPT !.pc = "extract", !.left = release.package]]
    /\ UNCHANGED <<server, runtimeVars, callVars, concVars, nearVars>>

\* tar.extractall(path=target_dir): one member
ExtractMember(c) ==
    /\ boot[c].pc = "extract"
    /\ boot[c].left # <<>>
    /\ fs' = WriteFile(fs, boot[c].target, Head(boot[c].left).rel, Head(boot[c].left).content)
    /\ boot' = [boot EXCEPT ![c].left = Tail(@)]
    /\ UNCHANGED <<server, runtimeVars, callVars, concVars, nearVars>>

\* download_and_extract_release after the extraction
FinishExtract(c) ==
    /\ boot[c].pc = "extract"
    /\ boot[c].left = <<>>
    /\ LET dir == fs[boot[c].target]
           release == boot[c].release
       IN  boot' = [boot EXCEPT ![c] =
               IF required_files_present(dir) # <<>> THEN Done(@, Raised("ValueError"))
               ELSE IF PolicyRaises(dir) THEN Done(@, Raised("RuntimePolicyInvalidError"))
               ELSE Done(@, Result(release.dataset_id, release.dataset_version,
                                   boot[c].target, FALSE, TRUE))]
    /\ UNCHANGED <<fs, server, runtimeVars, callVars, concVars, nearVars>>

\* the rel names of checksums.files
Rels(files) == {files[i].rel : i \in DOMAIN files}

\* what dataset_url/rel answers
Served(release, rel) ==
    IF rel = MANIFEST_NAME THEN release.manifest
    ELSE IF \E i \in DOMAIN release.files : release.files[i].rel = rel
    THEN release.files[CHOOSE i \in DOMAIN release.files : release.files[i].rel = rel].content
    ELSE Absent

\* bootstrap_dataset before target_dir.mkdir: "" or the exception
ManifestChecks(m) ==
    IF m.kind # "manifest" THEN "HTTPError"
    ELSE IF m.profile # MANIFEST_PROFILE THEN "ValueError"
    ELSE IF m.schema_version # 2 THEN "ValueError"
    ELSE IF m.country_iso # "JP" THEN "ValueError"
    ELSE IF m.dataset_id = "" THEN "ValueError"
    ELSE IF m.dataset_version = <<>> THEN "ValueError"
    ELSE ""

\* bootstrap_dataset between target_dir.mkdir and the loop over the files
ChecksumChecks(m) ==
    IF m.checksum_algo # "sha256" THEN "ValueError"
    ELSE IF validate_manifest_runtime_compatibility(m, CADIS_VERSION).raised THEN "ValueError"
    ELSE IF m.files = <<>> THEN "ValueError"
    ELSE IF RUNTIME_POLICY_FILE \notin Rels(m.files) THEN "ValueError"
    ELSE ""

\* bootstrap_dataset(dataset_base, "JP") up to the loop over the files;
\* dataset_base is releases/JP/jp.admin/<at>
BootstrapDataset(c, at) ==
    /\ boot[c].pc = "idle"
    /\ LET m == server.release[at].manifest
           call == [boot[c] EXCEPT !.mode = "release", !.at = at, !.manifest = m,
                                   !.net = <<"release_manifest">>]
           target == <<m.dataset_id, m.dataset_version>>
       IN  IF ManifestChecks(m) # ""
           THEN /\ boot' = [boot EXCEPT ![c] = Done(call, Raised(ManifestChecks(m)))]
                /\ fs' = fs
           ELSE /\ fs' = Mkdir(fs, target)
                /\ boot' = [boot EXCEPT ![c] =
                       IF ChecksumChecks(m) # ""
                       THEN Done([call EXCEPT !.target = target], Raised(ChecksumChecks(m)))
                       ELSE [call EXCEPT !.pc = "files", !.target = target, !.left = m.files]]
    /\ UNCHANGED <<server, runtimeVars, callVars, concVars, nearVars>>

\* one round of the loop over checksums.files: download, write, compare
DownloadFile(c) ==
    /\ boot[c].pc = "files"
    /\ boot[c].left # <<>>
    /\ LET entry == Head(boot[c].left)
           content == Served(server.release[boot[c].at], entry.rel)
           call == [boot[c] EXCEPT !.net = Append(@, "file")]
       IN  IF content.kind = "absent"
           THEN /\ boot' = [boot EXCEPT ![c] = Done(call, Raised("HTTPError"))]
                /\ fs' = fs
           ELSE /\ fs' = WriteFile(fs, boot[c].target, entry.rel, content)
                /\ boot' = [boot EXCEPT ![c] =
                       IF sha256_file(content) # entry.sha256 THEN Done(call, Raised("ValueError"))
                       ELSE IF st_size(content) # entry.size THEN Done(call, Raised("ValueError"))
                       ELSE [call EXCEPT !.left = Tail(@),
                                         !.verified = Append(@, [rel |-> entry.rel,
                                                                 sha256 |-> sha256_file(content)])]]
    /\ UNCHANGED <<server, runtimeVars, callVars, concVars, nearVars>>

\* bootstrap_dataset after the loop: "" or the exception
PolicyChecks(m, verified, dir) ==
    LET policy_file == dir.files[RUNTIME_POLICY_FILE]
        entry == m.files[CHOOSE i \in DOMAIN m.files : m.files[i].rel = RUNTIME_POLICY_FILE]
    IN  IF m.bundle_checksum # NoBundleChecksum
           /\ bundle_checksum_from_files(verified) # m.bundle_checksum THEN "ValueError"
        ELSE IF policy_file.kind = "absent" THEN "ValueError"
        ELSE IF sha256_file(policy_file) # entry.sha256 THEN "ValueError"
        ELSE IF policy_file.kind # "policy" THEN "ValueError"
        ELSE IF policy_file.raw.layers.hierarchy_required /\ "hierarchy.json" \notin Rels(m.files)
        THEN "ValueError"
        ELSE IF policy_file.raw.layers.repair_required /\ "repair.json" \notin Rels(m.files)
        THEN "ValueError"
        ELSE IF PolicyRaises(dir) THEN "RuntimePolicyInvalidError"
        ELSE ""

\* bootstrap_dataset after the loop: the checks, then the local manifest
FinishDataset(c) ==
    /\ boot[c].pc = "files"
    /\ boot[c].left = <<>>
    /\ LET m == boot[c].manifest
           error == PolicyChecks(m, boot[c].verified, fs[boot[c].target])
       IN  IF error # ""
           THEN /\ boot' = [boot EXCEPT ![c] = Done(@, Raised(error))]
                /\ fs' = fs
           ELSE /\ fs' = WriteFile(fs, boot[c].target, MANIFEST_NAME, m)
                /\ boot' = [boot EXCEPT ![c] =
                       Done(@, Result(m.dataset_id, m.dataset_version, boot[c].target, FALSE, FALSE))]
    /\ UNCHANGED <<server, runtimeVars, callVars, concVars, nearVars>>

\* the caller takes what the call returned or raised, and keeps it
ReturnCall(c) ==
    /\ boot[c].pc = "done"
    /\ boot' = [boot EXCEPT ![c] = [IdleCall EXCEPT !.result = boot[c].result]]
    /\ UNCHANGED <<fs, server, runtimeVars, callVars, concVars, nearVars>>

----------------------------------------------------------------------------
(* Bootstrap specification: one caller after another on one cache       *)

InitBoot ==
    /\ phase = "bootstrap"
    /\ raw_policy = <<>>
    /\ policy = NoPolicy
    /\ index = <<>>
    /\ hierarchy_parent_map = <<>>
    /\ repair_anchor_map = <<>>
    /\ semantic_overlays = <<>>
    /\ CallIdle
    /\ NearIdle
    /\ ConcIdle
    /\ fs \in Caches
    /\ server \in Servers
    /\ boot = [c \in Callers |-> IdleCall]

Pins == {<<>>} \cup Versions

BootStep(c) ==
    \/ \E pinned \in Pins, update \in BOOLEAN : BootstrapCountryDataset(c, pinned, update)
    \/ Resolve(c)
    \/ Download(c)
    \/ ExtractMember(c)
    \/ FinishExtract(c)
    \/ \E at \in Versions : BootstrapDataset(c, at)
    \/ DownloadFile(c)
    \/ FinishDataset(c)
    \/ ReturnCall(c)

NextBoot == BootStep("c1")

SpecBoot == InitBoot /\ [][NextBoot]_vars

\* the cached versions of jp.admin that validate: required files present
\* and the policy loads
ValidatingVersions(tree) ==
    {k[2] : k \in {k \in DOMAIN tree : /\ k[1] = "jp.admin"
                                       /\ parse_version_for_sort(k[2]) # <<>>
                                       /\ tree[k].exists
                                       /\ required_files_present(tree[k]) = <<>>
                                       /\ ~PolicyRaises(tree[k])}}

HighestVersion(S) ==
    CHOOSE v \in S : \A w \in S :
        ~TupleLess(parse_version_for_sort(v), parse_version_for_sort(w))

\* caller c starts bootstrap_country_dataset in this step
StartsCountry(c) == boot[c].pc = "idle" /\ boot'[c].mode = "index"

\* C12: without a pin and with update_to_latest false, a call made while a
\* cached version directory validates returns the highest validating
\* version, and reads no URL, whatever the other version directories hold
C12_HighestValidatingIsReused ==
    [][\A c \in Callers :
          (/\ StartsCountry(c)
           /\ boot'[c].pinned = <<>>
           /\ ~boot'[c].update
           /\ ValidatingVersions(fs) # {})
          => /\ boot'[c].pc = "done"
             /\ boot'[c].net = <<>>
             /\ boot'[c].result = Result("jp.admin", HighestVersion(ValidatingVersions(fs)),
                                         <<"jp.admin", HighestVersion(ValidatingVersions(fs))>>,
                                         TRUE, FALSE)]_vars

\* C13: a call with a pinned version returns the cached directory of that
\* version, reading no URL, when the directory exists with its required
\* files and a policy that loads; in every other case it goes on to fetch
\* the pinned release
C13_PinnedReuseOrFetch ==
    [][\A c \in Callers :
          (StartsCountry(c) /\ boot'[c].pinned # <<>>)
          => IF boot'[c].pinned \in ValidatingVersions(fs)
             THEN /\ boot'[c].pc = "done"
                  /\ boot'[c].net = <<>>
                  /\ boot'[c].result = Result("jp.admin", boot'[c].pinned,
                                              <<"jp.admin", boot'[c].pinned>>, TRUE, FALSE)
             ELSE boot'[c].pc = "resolve"]_vars

\* min < max_exclusive and min <= runtime_version < max_exclusive, the
\* versions read as tuples of integers
CompatHolds(compat, runtime_version) ==
    LET min_v == parse_version_for_sort(compat.min)
        max_v == parse_version_for_sort(compat.max_exclusive)
        runtime_v == parse_version_for_sort(runtime_version)
    IN  /\ min_v # <<>> /\ max_v # <<>> /\ runtime_v # <<>>
        /\ TupleLess(min_v, max_v)
        /\ ~TupleLess(runtime_v, min_v)
        /\ TupleLess(runtime_v, max_v)

\* the call has read a dataset file: the package or a file of checksums.files
HasDownloaded(call) == \E i \in DOMAIN call.net : call.net[i] \in {"package", "package_sha", "file"}

\* C14: a call that fetched a release manifest whose runtime_compat does not
\* hold for the runtime version downloads no dataset file, and ends by
\* raising ValueError; so a call that fetched a manifest succeeds only if
\* runtime_compat holds
C14_IncompatibleManifestIsRejected ==
    \A c \in Callers :
        (boot[c].manifest.kind = "manifest"
         /\ ~CompatHolds(boot[c].manifest.runtime_compat, CADIS_VERSION))
        => /\ ~HasDownloaded(boot[c])
           /\ boot[c].pc = "done"
           /\ boot[c].result = Raised("ValueError")

\* a manifest that is well-formed but for a range the runtime is below
TooNewManifest(version) ==
    [GoodManifest(version) EXCEPT
        !.runtime_compat = Compat(<<"2", ".", "1", "0", ".", "0">>, <<"3", ".", "0", ".", "0">>)]

C14_Witness ==
    /\ boot["c1"].mode = "index"
    /\ boot["c1"].manifest = TooNewManifest(V_1_10_0)
    /\ boot["c1"].result = Raised("ValueError")
    /\ boot["c1"].net = <<"dataset_manifest", "release_manifest">>

\* the version an index-manifest call asks for: its pin, or the routed latest
Requested(call) == IF call.pinned # <<>> THEN call.pinned ELSE server.latest

\* C15: an index-manifest call accepts a release manifest only when its
\* country is JP, its dataset id is jp.admin and its version is the pinned or
\* the routed latest version, and it writes into JP/jp.admin/<that version>
C15_AcceptedManifestMatchesRequest ==
    \A c \in Callers :
        (boot[c].mode = "index" /\ boot[c].release # NoRelease)
        => /\ boot[c].manifest.country_iso = "JP"
           /\ boot[c].manifest.dataset_id = "jp.admin"
           /\ boot[c].manifest.dataset_version = Requested(boot[c])
           /\ boot[c].target \in {NoKey, <<"jp.admin", Requested(boot[c])>>}

\* C16: what bootstrap_country_dataset returns names the dataset by the
\* country, dataset id and version of the dataset_release_manifest.json that
\* is stored in the returned directory
C16_IdentityIsTheStoredManifest ==
    \A c \in Callers :
        (boot[c].mode = "index" /\ boot[c].pc = "done" /\ boot[c].result.kind = "result")
        => LET stored == fs[boot[c].result.dataset_dir].files[MANIFEST_NAME]
           IN  /\ stored.kind = "manifest"
               /\ stored.country_iso = "JP"
               /\ stored.dataset_id = boot[c].result.dataset_id
               /\ stored.dataset_version = boot[c].result.dataset_version

\* the last call of caller c that has ended downloaded a dataset into the
\* directory, verified it and returned it
HasPopulated(c, dir) ==
    /\ boot[c].result.kind = "result"
    /\ ~boot[c].result.used_cached_dataset
    /\ boot[c].result.dataset_dir = dir

\* this step of caller d writes a file of the directory
WritesInto(d, dir) ==
    /\ boot[d].target = dir
    /\ \/ ExtractMember(d)
       \/ DownloadFile(d) /\ Served(server.release[boot[d].at], Head(boot[d].left).rel).kind # "absent"
       \/ FinishDataset(d) /\ boot'[d].result.kind = "result"

\* C19: once a call has populated a version directory and returned, no later
\* call, in either mode and with any arguments, writes a file of that
\* directory
C19_VersionDirectoryIsWrittenOnce ==
    [][\A c \in Callers : \A dir \in DirKeys :
          HasPopulated(c, dir) => ~WritesInto(c, dir)]_vars

\* the file of the entry is in the directory with the declared sha256 and size
EntryMatches(dir, entry) ==
    /\ sha256_file(dir.files[entry.rel]) = entry.sha256
    /\ st_size(dir.files[entry.rel]) = entry.size

\* every entry of checksums.files has been downloaded and matches, and so
\* does the bundle checksum when the manifest carries one
AllVerified(call) ==
    /\ call.left = <<>>
    /\ \A i \in DOMAIN call.manifest.files : EntryMatches(fs[call.target], call.manifest.files[i])
    /\ call.manifest.bundle_checksum # NoBundleChecksum
       => call.manifest.bundle_checksum =
              bundle_checksum_from_files(
                  [i \in DOMAIN call.manifest.files |->
                      [rel |-> call.manifest.files[i].rel,
                       sha256 |-> sha256_file(fs[call.target].files[call.manifest.files[i].rel])]])

\* this step of the release-manifest call of c writes the local
\* dataset_release_manifest.json
WritesManifest(c) ==
    \/ FinishDataset(c) /\ boot'[c].result.kind = "result"
    \/ /\ DownloadFile(c)
       /\ Head(boot[c].left).rel = MANIFEST_NAME
       /\ Served(server.release[boot[c].at], MANIFEST_NAME).kind # "absent"

\* this round of the loop downloads a file that does not match its entry
Mismatch(c) ==
    /\ DownloadFile(c)
    /\ Served(server.release[boot[c].at], Head(boot[c].left).rel).kind # "absent"
    /\ ~EntryMatches(fs'[boot[c].target], Head(boot[c].left))

\* C20: a release-manifest call writes the local dataset_release_manifest.json
\* and returns a result only when every entry of checksums.files has been
\* downloaded and matches its sha256 and size, and the bundle checksum
\* matches; at the first mismatch it raises ValueError and does not write
\* the manifest
C20_ManifestWrittenAfterVerification ==
    [][\A c \in Callers :
          /\ (WritesManifest(c) \/ (boot[c].pc = "files" /\ boot'[c].result.kind = "result"
                                    /\ boot'[c].pc = "done"))
             => AllVerified(boot[c])
          /\ Mismatch(c) => (boot'[c].result = Raised("ValueError") /\ ~WritesManifest(c))]_vars

\* the manifest passes the checks on profile, schema, country, dataset_id
\* and dataset_version, and fails the check of checksum_algo or of
\* runtime_compat
FailsCompat(m) ==
    /\ ManifestChecks(m) = ""
    /\ \/ m.checksum_algo # "sha256"
       \/ validate_manifest_runtime_compatibility(m, CADIS_VERSION).raised

\* C27: in release-manifest mode a manifest that fails the checksum_algo or
\* runtime_compat check makes the call raise without having created a
\* directory or a file in the cache
C27_CompatCheckedBeforeMkdir ==
    [][\A c \in Callers : \A at \in Versions :
          (BootstrapDataset(c, at) /\ FailsCompat(server.release[at].manifest)) =>
              /\ boot'[c].result.kind = "raised"
              /\ fs' = fs]_vars

\* the cached version directories of jp.admin that validate and whose name
\* does not parse as a version
NonNumericValidating(tree) ==
    {k[2] : k \in {k \in DOMAIN tree :
                      /\ k[1] = "jp.admin"
                      /\ parse_version_for_sort(k[2]) = <<>>
                      /\ tree[k].exists
                      /\ validate_cached_dataset_dir(tree[k]) = "valid"}}

\* caller c starts a call without a pin and with update_to_latest false
\* while a directory with a non-numeric name validates and no directory
\* with a numeric name does
OnlyNonNumericValidates(c) ==
    /\ StartsCountry(c)
    /\ boot'[c].pinned = <<>>
    /\ ~boot'[c].update
    /\ NonNumericValidating(fs) # {}
    /\ ValidatingVersions(fs) = {}

\* C28: in cached-version selection (no pin, update_to_latest false) a
\* version directory whose name holds a non-numeric token is ordered last,
\* and is the one selected when it validates and no numerically named
\* directory does
C28_NonNumericIsSelectedLast ==
    [][\A c \in Callers :
          OnlyNonNumericValidates(c) =>
              /\ boot'[c].pc = "done"
              /\ boot'[c].result.kind = "result"
              /\ boot'[c].result.used_cached_dataset
              /\ boot'[c].result.dataset_version \in NonNumericValidating(fs)]_vars

----------------------------------------------------------------------------
(* safe_extract_tar_gz.  A path is a sequence of names, a name a         *)
(* sequence of characters; in this specification server is the archive  *)
(* (its member names in order), boot the call and fs the set of paths   *)
(* that were written.                                                   *)

DotDot == <<".", ".">>

RECURSIVE Normalize(_, _)
\* Path.resolve(): ".." steps back to the parent, the root is its own parent
Normalize(parts, acc) ==
    IF parts = <<>> THEN acc
    ELSE IF Head(parts) = DotDot
    THEN Normalize(Tail(parts), IF acc = <<>> THEN acc ELSE SubSeq(acc, 1, Len(acc) - 1))
    ELSE Normalize(Tail(parts), Append(acc, Head(parts)))

\* (target_dir / member.name).resolve(): an absolute name replaces target_dir
MemberPath(target, name) ==
    IF name.absolute THEN Normalize(name.parts, <<>>) ELSE Normalize(target \o name.parts, <<>>)

RECURSIVE PathStr(_)
\* str(path)
PathStr(parts) ==
    IF parts = <<>> THEN <<>> ELSE <<"/">> \o Head(parts) \o PathStr(Tail(parts))

\* s.startswith(prefix)
StartsWith(s, prefix) == Len(prefix) <= Len(s) /\ SubSeq(s, 1, Len(prefix)) = prefix

\* the test of safe_extract_tar_gz on one member
MemberPasses(target, name) ==
    StartsWith(PathStr(MemberPath(target, name)), PathStr(Normalize(target, <<>>)))

TarRoot == << <<"c">> >>

Name_1_0 == <<"1", ".", "0">>

Name_1_0_1 == <<"1", ".", "0", ".", "1">>

TarTargets == {TarRoot \o <<Name_1_0>>, TarRoot \o <<Name_1_0_1>>}

Relative(parts) == [absolute |-> FALSE, parts |-> parts]

Absolute(parts) == [absolute |-> TRUE, parts |-> parts]

\* the member names of the archives
MemberNames ==
    {Relative(<< <<"a">> >>),
     Relative(<< <<"d">>, <<"a">> >>),
     Relative(<<DotDot, Name_1_0, <<"a">> >>),
     Relative(<<DotDot, Name_1_0_1, <<"a">> >>),
     Relative(<<DotDot, <<"x">>, <<"a">> >>),
     Absolute(<< <<"e">>, <<"a">> >>),
     Absolute(TarRoot \o <<Name_1_0, <<"b">> >>)}

Archives ==
    {<<m>> : m \in MemberNames} \cup {<<m, n>> : m \in MemberNames, n \in MemberNames}

TarIdle(target) == [pc |-> "idle", target |-> target, left |-> <<>>, raised |-> FALSE]

InitTar ==
    /\ phase = "archive"
    /\ raw_policy = <<>>
    /\ policy = NoPolicy
    /\ index = <<>>
    /\ hierarchy_parent_map = <<>>
    /\ repair_anchor_map = <<>>
    /\ semantic_overlays = <<>>
    /\ CallIdle
    /\ NearIdle
    /\ ConcIdle
    /\ fs = {}
    /\ server \in Archives
    /\ \E target \in TarTargets : boot = TarIdle(target)

\* safe_extract_tar_gz(archive_path, target_dir): the loop over getmembers()
SafeExtractTarGz ==
    /\ boot.pc = "idle"
    /\ boot' = IF \E i \in DOMAIN server : ~MemberPasses(boot.target, server[i])
               THEN [boot EXCEPT !.pc = "done", !.raised = TRUE]
               ELSE [boot EXCEPT !.pc = "extractall", !.left = server]
    /\ UNCHANGED <<fs, server, runtimeVars, callVars, concVars, nearVars>>

\* tar.extractall(path=target_dir): one member
ExtractAll ==
    /\ boot.pc = "extractall"
    /\ fs' = fs \cup {MemberPath(boot.target, Head(boot.left))}
    /\ boot' = [boot EXCEPT !.left = Tail(@), !.pc = IF Tail(boot.left) = <<>> THEN "done" ELSE @]
    /\ UNCHANGED <<server, runtimeVars, callVars, concVars, nearVars>>

NextTar == SafeExtractTarGz \/ ExtractAll

SpecTar == InitTar /\ [][NextTar]_vars

\* the path is the directory or lies below it
Under(dir, path) == Len(dir) <= Len(path) /\ SubSeq(path, 1, Len(dir)) = dir

\* some member of the archive has its destination outside the target
EscapesTarget ==
    \E i \in DOMAIN server : ~Under(Normalize(boot.target, <<>>), MemberPath(boot.target, server[i]))

\* C17: when a member's destination lies outside the target directory (a
\* sibling whose name begins with the target's name included), the call
\* raises and writes nothing; otherwise it writes every member, below the
\* target directory
C17_EscapingArchiveIsRejected ==
    /\ EscapesTarget => /\ fs = {}
                        /\ boot.pc # "idle" => (boot.pc = "done" /\ boot.raised)
    /\ (~EscapesTarget /\ boot.pc = "done")
       => /\ ~boot.raised
          /\ fs = {MemberPath(boot.target, server[i]) : i \in DOMAIN server}

----------------------------------------------------------------------------
(* bootstrap_dataset on paths.  In this specification server is the      *)
(* release: the keys of checksums.files in order, each with what its URL *)
(* answers, and whether the downloaded policy loads; boot is the call    *)
(* and fs the set of paths of the files that were written.  A name of a  *)
(* path is written as one chunk of characters.                           *)

PolicyKey == Relative(<< <<RUNTIME_POLICY_FILE>> >>)

\* the keys of checksums.files
ReleaseKeys ==
    {PolicyKey,
     Relative(<< <<"geometry.ffsf">> >>),
     Relative(<< <<"overlays">>, <<"a.json">> >>),
     Relative(<<DotDot, <<"escaped.txt">> >>),
     Relative(<< <<"overlays">>, DotDot, DotDot, Name_1_0_1, <<"a.json">> >>),
     Absolute(<< <<"outside">>, <<"abs.txt">> >>),
     Absolute(TarRoot \o <<Name_1_0, <<"b.json">> >>)}

\* what dataset_url/rel answers: nothing, the bytes the entry declares, or
\* other bytes
Answers == {"absent", "match", "mismatch"}

ReleaseEntry(key, answer) == [rel |-> key, answer |-> answer]

ReleaseEntries == {ReleaseEntry(key, answer) : key \in ReleaseKeys, answer \in Answers}

\* checksums.files is a dict: its keys are pairwise distinct
ReleaseFileLists ==
    {<<e>> : e \in ReleaseEntries}
        \cup {<<e, f>> : e \in {ReleaseEntry(PolicyKey, "match")}, f \in {g \in ReleaseEntries : g.rel # PolicyKey}}
        \cup {<<f, e>> : e \in {ReleaseEntry(PolicyKey, "match")}, f \in {g \in ReleaseEntries : g.rel # PolicyKey}}

PathIdle(target) == [pc |-> "idle", target |-> target, left |-> <<>>, raised |-> FALSE]

InitPaths ==
    /\ phase = "release"
    /\ raw_policy = <<>>
    /\ policy = NoPolicy
    /\ index = <<>>
    /\ hierarchy_parent_map = <<>>
    /\ repair_anchor_map = <<>>
    /\ semantic_overlays = <<>>
    /\ CallIdle
    /\ NearIdle
    /\ ConcIdle
    /\ fs = {}
    /\ \E files \in ReleaseFileLists, loads \in BOOLEAN :
           server = [files |-> files, policy_loads |-> loads]
    /\ \E target \in TarTargets : boot = PathIdle(target)

\* bootstrap_dataset from the checks on checksums.files to the loop
BootstrapDatasetPaths ==
    /\ boot.pc = "idle"
    /\ boot' = IF PolicyKey \notin {server.files[i].rel : i \in DOMAIN server.files}
               THEN [boot EXCEPT !.pc = "done", !.raised = TRUE]
               ELSE [boot EXCEPT !.pc = "files", !.left = server.files]
    /\ UNCHANGED <<fs, server, runtimeVars, callVars, concVars, nearVars>>

\* one round of the loop: out = target_dir / rel, out.write_bytes(...), then
\* the comparison of sha256 and size
DownloadFilePath ==
    /\ boot.pc = "files"
    /\ LET entry == Head(boot.left)
       IN  IF entry.answer = "absent"
           THEN /\ boot' = [boot EXCEPT !.pc = "done", !.raised = TRUE]
                /\ fs' = fs
           ELSE /\ fs' = fs \cup {MemberPath(boot.target, entry.rel)}
                /\ boot' = IF entry.answer = "mismatch"
                           THEN [boot EXCEPT !.pc = "done", !.raised = TRUE]
                           ELSE [boot EXCEPT !.left = Tail(@),
                                             !.pc = IF Tail(boot.left) = <<>> THEN "policy" ELSE @]
    /\ UNCHANGED <<server, runtimeVars, callVars, concVars, nearVars>>

\* after the loop: the checks on the downloaded policy, then
\* local_manifest.write_text(...)
FinishDatasetPaths ==
    /\ boot.pc = "policy"
    /\ IF server.policy_loads
       THEN /\ fs' = fs \cup {Normalize(boot.target \o << <<MANIFEST_NAME>> >>, <<>>)}
            /\ boot' = [boot EXCEPT !.pc = "done"]
       ELSE /\ fs' = fs
            /\ boot' = [boot EXCEPT !.pc = "done", !.raised = TRUE]
    /\ UNCHANGED <<server, runtimeVars, callVars, concVars, nearVars>>

NextPaths == BootstrapDatasetPaths \/ DownloadFilePath \/ FinishDatasetPaths

SpecPaths == InitPaths /\ [][NextPaths]_vars

\* C30: every file written by release-manifest bootstrap lies inside the
\* target directory, for every manifest, keys that are absolute or hold
\* ".." segments included
C30_WritesStayInsideTarget ==
    \A path \in fs : Under(Normalize(boot.target, <<>>), path)

----------------------------------------------------------------------------
(* Concurrent bootstrap specification: two callers on one cache         *)

\* the caches and servers of the concurrent runs
ConcCaches ==
    {tree \in Caches :
        /\ tree[<<"jp.admin", V_1_2_0>>] \in {NoDir, Dir(Package(GoodManifest(V_1_2_0), GoodFiles))}
        /\ tree[<<"jp.admin", V_1_10_0>>] \in
               {NoDir, Dir(Package(GoodManifest(V_1_10_0), Tail(GoodFiles)))}}

ConcServers == {Server(latest, GoodRelease(latest)) : latest \in Versions}

InitBootConc ==
    /\ phase = "bootstrap"
    /\ raw_policy = <<>>
    /\ policy = NoPolicy
    /\ index = <<>>
    /\ hierarchy_parent_map = <<>>
    /\ repair_anchor_map = <<>>
    /\ semantic_overlays = <<>>
    /\ CallIdle
    /\ NearIdle
    /\ ConcIdle
    /\ fs \in ConcCaches
    /\ server \in ConcServers
    /\ boot = [c \in Callers |-> IdleCall]

NextBootConc == \E c \in Callers : BootStep(c)

SpecBootConc == InitBootConc /\ [][NextBootConc]_vars

\* the call is writing its target directory and has not yet verified it
Populating(call) == call.pc \in {"extract", "files"}

\* a file that the call is still to write is not in the directory as the
\* call will write it
Incomplete(call) ==
    \E i \in DOMAIN call.left :
        IF call.mode = "index"
        THEN fs[call.target].files[call.left[i].rel] # call.left[i].content
        ELSE sha256_file(fs[call.target].files[call.left[i].rel]) # call.left[i].sha256

\* in this step the cache validation of caller d accepts the directory and
\* d returns it as a cached dataset
Reuses(d, dir) ==
    /\ boot[d].pc # "done"
    /\ boot'[d].pc = "done"
    /\ boot'[d].result.kind = "result"
    /\ boot'[d].result.used_cached_dataset
    /\ boot'[d].result.dataset_dir = dir

\* C18: while a call is populating a version directory whose files are
\* still incomplete, no other call's cache validation accepts that
\* directory and returns it as a reusable dataset
C18_NoReuseWhilePopulating ==
    [][\A c \in Callers : \A d \in Callers \ {c} :
          (Populating(boot[c]) /\ Incomplete(boot[c])) => ~Reuses(d, boot[c].target)]_vars

----------------------------------------------------------------------------
(* Policy specification: load_runtime_policy on the files a dataset can    *)
(* ship, and the two status computations on the policy it returns.  In    *)
(* this specification bundle holds the node list of the last status call  *)
(* and the two statuses computed from it.                                 *)

\* an entry of optional_layers
Layer(name, file) == [name |-> name, file |-> file, type |-> "semantic_overlay", stage |-> "post_status", deterministic |-> TRUE]

Name_a == <<"a">>
Name_b == <<"b">>
Name_sp_a == <<" ", "a">>
Name_a_sp == <<"a", " ">>
Name_blank == <<" ">>

\* optional_layers of runtime_policy.json
OptionalLayerLists ==
    { <<>>,
      << Layer(Name_a, <<"a.json">>) >>,
      << Layer(Name_a, <<"a.json">>), Layer(Name_b, <<"overlays", "b.json">>) >>,
      << Layer(Name_a, <<"a.json">>), Layer(Name_a, <<"b.json">>) >>,
      << Layer(Name_a, <<"a.json">>), Layer(Name_sp_a, <<"b.json">>) >>,
      << Layer(Name_a_sp, <<"a.json">>), Layer(Name_b, <<"b.json">>), Layer(Name_a, <<"c.json">>) >>,
      << Layer(Name_blank, <<"a.json">>) >>,
      << Layer(Name_a, <<>>) >>,
      << Layer(Name_a, <<"..", "a.json">>) >>,
      << Layer(Name_a, <<"/", "a.json">>) >>,
      << [Layer(Name_a, <<"a.json">>) EXCEPT !.type = "geometry"] >>,
      << [Layer(Name_a, <<"a.json">>) EXCEPT !.stage = "pre_status"] >>,
      << [Layer(Name_a, <<"a.json">>) EXCEPT !.deterministic = FALSE] >> }

\* allowed_levels with entries below zero, and with the level zero; an
\* allowed shape without levels
SignedBases ==
    { [allowed_levels |-> <<4, 6>>,
       allowed_shapes |-> << <<4, 6>>, <<>> >>,
       shape_status |-> << ShapeStatus(<<4, 6>>, "ok") >>],
      [allowed_levels |-> <<4, -1, 6>>,
       allowed_shapes |-> << <<4, 6>>, <<6, -1>> >>,
       shape_status |-> << ShapeStatus(<<4, 6>>, "ok"), ShapeStatus(<<-1, 6>>, "partial") >>],
      [allowed_levels |-> <<0, 4, 6>>,
       allowed_shapes |-> << <<0, 4, 6>> >>,
       shape_status |-> << ShapeStatus(<<6, 4, 0>>, "ok") >>] }

SignedPolicies ==
    { [allowed_levels |-> b.allowed_levels, allowed_shapes |-> b.allowed_shapes,
       shape_status |-> b.shape_status,
       layers |-> [hierarchy_required |-> FALSE, repair_required |-> FALSE],
       hierarchy_repair_rules |-> Rule(4, <<6>>), repair_rules |-> Rule(4, <<>>)] :
        b \in SignedBases }

\* runtime_policy.json
PolicyFiles ==
    { WithField(p, "optional_layers", ol) :
        p \in RawPolicies \cup SignedPolicies, ol \in OptionalLayerLists }

StatusNodes ==
    { [level |-> 4, name |-> "N1"], [level |-> 6, name |-> "N2"],
      [level |-> 8, name |-> "N3"], [name |-> "N4"] }

\* the node lists handed to the status computations
StatusNodeLists ==
    {<<>>} \cup {<<n>> : n \in StatusNodes}
           \cup {<<n, m>> : n \in StatusNodes, m \in StatusNodes}
           \cup {<< [level |-> 4, name |-> "N1"], [level |-> 6, name |-> "N2"],
                    [level |-> 8, name |-> "N3"] >>}

InitPolicy ==
    /\ phase = "dataset"
    /\ raw_policy \in PolicyFiles
    /\ policy = NoPolicy
    /\ index = <<>>
    /\ hierarchy_parent_map = <<>>
    /\ repair_anchor_map = <<>>
    /\ semantic_overlays = <<>>
    /\ CallIdle
    /\ NearIdle
    /\ BootIdle
    /\ ConcIdle

\* load_runtime_policy(dataset_dir)
LoadRuntimePolicy ==
    /\ phase = "dataset"
    /\ policy' = load_runtime_policy(raw_policy)
    /\ phase' = IF policy'.valid THEN "ready" ELSE "rejected"
    /\ UNCHANGED <<raw_policy, index, hierarchy_parent_map, repair_anchor_map,
                   semantic_overlays, callVars, concVars, nearVars, bootVars>>

\* validate_allowed_shapes(nodes) followed by status_evaluator(nodes), as in
\* run_v2_shadow_pipeline
EvaluateStatus(nodes) ==
    /\ phase = "ready"
    /\ last_op = "none"
    /\ last_op' = "status"
    /\ bundle' = [nodes |-> nodes,
                  core |-> validate_allowed_shapes(nodes, policy.allowed_shapes,
                                                   policy.shape_status_map)[1],
                  runtime |-> evaluate_lookup_status(nodes, policy.allowed_shapes,
                                                     policy.shape_status_map)]
    /\ UNCHANGED <<pt, levels, polygon_hits, base, applied, out, runtimeVars, concVars,
                   nearVars, bootVars>>

StatusStep == \E nodes \in StatusNodeLists : EvaluateStatus(nodes)

NextPolicy == LoadRuntimePolicy \/ StatusStep \/ Return

SpecPolicy == InitPolicy /\ [][NextPolicy]_vars

Accepted == phase = "ready" /\ policy.valid

LayerNames == [i \in DOMAIN policy.optional_layers |-> policy.optional_layers[i].name]

\* C21: the names of the optional layers of an accepted policy are pairwise
\* distinct
C21_OptionalLayerNamesAreDistinct ==
    Accepted =>
        \A i, j \in DOMAIN LayerNames : i # j => LayerNames[i] # LayerNames[j]

Ascending(s) == \A i, j \in DOMAIN s : i < j => s[i] < s[j]

\* C22: allowed_levels of an accepted policy is ascending, without
\* duplicates, and holds only non-negative integers
C22_AllowedLevelsAreSortedNaturals ==
    Accepted =>
        /\ Ascending(policy.allowed_levels)
        /\ \A i \in DOMAIN policy.allowed_levels : policy.allowed_levels[i] >= 0

\* C23: in an accepted policy the domain of shape_status_map is exactly
\* allowed_shapes, its values are ok, partial or failed, and every shape is
\* an ascending tuple of levels of allowed_levels
C23_EveryAllowedShapeHasAStatus ==
    Accepted =>
        /\ DictKeys(policy.shape_status_map) = policy.allowed_shapes
        /\ \A i \in DOMAIN policy.shape_status_map :
               policy.shape_status_map[i].v \in StatusValues
        /\ \A sh \in policy.allowed_shapes :
               Ascending(sh) /\ SeqToSet(sh) \subseteq SeqToSet(policy.allowed_levels)

----------------------------------------------------------------------------
(* Concurrent specification: the threads of one process call lookup on one *)
(* shared CadisLookupPipeline; a thread can be preempted between any two   *)
(* of the stages of its call, which read the shared objects                *)

Threads == {"t1", "t2"}

IdleThread ==
    [pc |-> "idle", pt |-> <<0, 0>>, hits |-> <<>>, geometry |-> <<>>, raw |-> <<>>,
     hsupp |-> <<>>, rsupp |-> <<>>, result |-> NoOut]

\* the objects that the instance holds
Shared ==
    [policy |-> policy, index |-> index, hierarchy_parent_map |-> hierarchy_parent_map,
     repair_anchor_map |-> repair_anchor_map, semantic_overlays |-> semantic_overlays]

\* the datasets of the concurrent specification use both supplementation stages
ConcPolicies ==
    {r \in RawPolicies : /\ load_runtime_policy(r).valid
                         /\ load_runtime_policy(r).hierarchy_required
                         /\ load_runtime_policy(r).repair_required}

\* the instance after CadisLookupPipeline.__init__
InitConc ==
    /\ phase = "serving"
    /\ raw_policy \in ConcPolicies
    /\ policy = load_runtime_policy(raw_policy)
    /\ index = PipelineIndex
    /\ hierarchy_parent_map =
           load_hierarchy_parent_map(HierarchyFile, policy.hierarchy_child_levels,
                                     policy.hierarchy_parent_level)
    /\ repair_anchor_map = load_repair_anchor_map(RepairFile)
    /\ semantic_overlays = <<SemMeta, SemRename>>
    /\ CallIdle
    /\ NearIdle
    /\ BootIdle
    /\ th = [t \in Threads |-> IdleThread]
    /\ loaded = Shared

\* lookup: polygon_hits = self.geometry_index.query_point(pt, self.allowed_levels)
T_Query(t, p) ==
    /\ th[t].pc = "idle"
    /\ th' = [th EXCEPT ![t] = [@ EXCEPT !.pc = "queried", !.pt = p,
                 !.hits = QueryPoint(index, p, policy.allowed_levels)]]
    /\ UNCHANGED <<nearVars, bootVars, runtimeVars, callVars, loaded>>

\* run_v2_shadow_pipeline: collect_geometry_evidence, then the call of
\* _hierarchy_provider, which returns an object of hierarchy_parent_map
T_Provide(t) ==
    /\ th[t].pc = "queried"
    /\ LET geometry == collect_geometry_evidence(th[t].hits)
       IN  th' = [th EXCEPT ![t] = [@ EXCEPT !.pc = "provided", !.geometry = geometry,
                     !.raw = HierarchyRaw(geometry, policy.allowed_levels,
                                          [kind |-> "runtime"], Runtime)]]
    /\ UNCHANGED <<nearVars, bootVars, runtimeVars, callVars, loaded>>

\* supplement_from_hierarchy: _normalize_supplement_nodes on what the provider
\* returned
T_Normalize(t) ==
    /\ th[t].pc = "provided"
    /\ LET hsupp == normalize_supplement_nodes(th[t].raw, "admin_tree_name",
                        "hierarchy_repair", policy.allowed_levels,
                        DictKeys(th[t].geometry))
       IN  /\ th' = [th EXCEPT ![t] = [@ EXCEPT !.pc = "normalized", !.hsupp = hsupp]]
           /\ hierarchy_parent_map' = WriteBack(hierarchy_parent_map, DictValues(hsupp))
    /\ UNCHANGED <<nearVars, bootVars, phase, raw_policy, policy, index, repair_anchor_map,
                   semantic_overlays, callVars, loaded>>

\* supplement_from_repair_dataset on the merge of geometry and hierarchy
T_Repair(t) ==
    /\ th[t].pc = "normalized"
    /\ th' = [th EXCEPT ![t] = [@ EXCEPT !.pc = "repaired",
                 !.rsupp = supplement_from_repair_dataset(
                               merge_evidence_in_priority_order(
                                   <<th[t].geometry, th[t].hsupp>>),
                               policy.allowed_levels, [kind |-> "runtime"], Runtime)]]
    /\ UNCHANGED <<nearVars, bootVars, runtimeVars, callVars, loaded>>

\* the tail of run_v2_shadow_pipeline and apply_semantic_overlays
T_Finish(t) ==
    /\ th[t].pc = "repaired"
    /\ LET b == PipelineTail(th[t].geometry, th[t].hsupp, th[t].rsupp,
                             policy.allowed_levels, policy.allowed_shapes,
                             [kind |-> "runtime"], <<>>, Runtime, "Country")
       IN  th' = [th EXCEPT ![t] = [@ EXCEPT !.pc = "done",
                     !.result = apply_semantic_overlays(b.public, semantic_overlays)]]
    /\ UNCHANGED <<nearVars, bootVars, runtimeVars, callVars, loaded>>

\* the caller of the thread has consumed the bundle
T_Return(t) ==
    /\ th[t].pc = "done"
    /\ th' = [th EXCEPT ![t] = IdleThread]
    /\ UNCHANGED <<nearVars, bootVars, runtimeVars, callVars, loaded>>

NextConc ==
    \E t \in Threads :
        \/ \E p \in Points : T_Query(t, p)
        \/ T_Provide(t)
        \/ T_Normalize(t)
        \/ T_Repair(t)
        \/ T_Finish(t)
        \/ T_Return(t)

SpecConc == InitConc /\ [][NextConc]_vars

\* the bundle of the same call on the instance as it was loaded, run alone
Alone(p) ==
    apply_semantic_overlays(
        LookupBundle([policy |-> loaded.policy,
                      hierarchy_parent_map |-> loaded.hierarchy_parent_map,
                      repair_anchor_map |-> loaded.repair_anchor_map],
                     loaded.index, p[2], p[1]).public,
        loaded.semantic_overlays)

\* C8: in every interleaving of the stages of the lookups of the threads, the
\* shared objects stay as they were loaded and each finished lookup has
\* returned the bundle of the same call run alone
C8_InterleavedLookupsAreIsolated ==
    phase = "serving" =>
        /\ Shared = loaded
        /\ \A t \in Threads : th[t].pc = "done" => th[t].result = Alone(th[t].pt)

\* a thread finished a lookup that took a node of hierarchy_parent_map while
\* another thread holds what the provider returned to it
C8_Witness ==
    /\ phase = "serving"
    /\ \E t1, t2 \in Threads :
           /\ t1 # t2
           /\ th[t1].pc = "done" /\ th[t1].hsupp # <<>>
           /\ ~th[t1].result.raised
           /\ Hierarchy(th[t1].result.value) # <<>>
           /\ th[t2].pc = "provided" /\ th[t2].raw # <<>>

=============================================================================
